---------------------------- MODULE Spec2Model ----------------------------
(***************************************************************************)
(* A model of Tank-Mayhem's entity simulation core.                        *)
(*                                                                         *)
(*   SpecEM   : EntityManager (src/src/core/EntityManager.ts) driven by    *)
(*              arbitrary addEntity / removeEntity / update / clear calls  *)
(*              over a small universe of entity objects.                   *)
(*   SpecTank : one Tank (src/unnamed/part_000) driven by arbitrary        *)
(*              fire / controlWithInput / update / damage / heal /         *)
(*              setHealth / reset calls.                                   *)
(*   SpecProjectile : one Projectile (src/src/entities/Player.ts) driven   *)
(*              by update / isExpired calls and the physics engine.        *)
(*   SpecCollision : the beginContact listener of CollisionManager         *)
(*              (src/src/core/CollisionManager.ts) over pairs of bodies.   *)
(*   SpecTerrain : one Terrain (src/unnamed/part_001), generated once and  *)
(*              then queried with getHeightAt.                             *)
(*   SpecTick : Game.update (src/unnamed/part_004), tick after tick.       *)
(*   SpecAssets : AssetManager.getModel (src/unnamed/part_002) and the     *)
(*              visuals Tank and WorldObject build from it.                *)
(*   SpecSession : a Game session (src/unnamed/part_004) with its          *)
(*              NetworkManager (src/unnamed/part_005): start, stop,        *)
(*              frames, fire input, timeouts and intervals of the          *)
(*              simulated server.  SpecStart lets start() calls overlap,   *)
(*              SpecHits adds playerHit and playerUpdate events, and       *)
(*              SpecSoloFair is the unstopped session of the local player  *)
(*              under fair frames.                                         *)
(*   SpecAim  : aiming input (src/src/core/InputManager.ts) and the        *)
(*              turret pitch of the local tank.                            *)
(*   SpecEmitter : one event of an EventEmitter (src/unnamed/part_002).    *)
(*                                                                         *)
(* Time is counted in whole units, UnitsPerSecond of them to the second;   *)
(* frame time of the tick in frame units (FrameUnitsPerSecond).            *)
(***************************************************************************)
EXTENDS Integers, Sequences, FiniteSets, TLC

(***************************************************************************)
(* Bounds of the model.                                                    *)
(***************************************************************************)
\* entity objects 1..NumEntities that callers may hand to the EntityManager
NumEntities == 3
\* distinct id strings; entity e carries id ((e-1) % NumIds) + 1, so two
\* different objects can carry the same id (a projectile and its echo)
NumIds == 2
\* time resolution and the largest frame delta, in units
UnitsPerSecond == 2
MaxDelta == 3
\* |health| beyond which the model stops applying damage / heal
HealthCap == 300
\* longest run of consecutive fire() calls that is recorded
MaxStreak == 6
\* a session: the objects constructed, the start() calls that pass the
\* isRunning test, the kills counted
MaxObjects == 3
MaxStarts == 2
MaxKills == 2
\* the callbacks a caller may hand to an EventEmitter
NumCallbacks == 2
\* aiming: pi/4 in pitch units (one unit is the pitch of one pixel of mouse
\* movement; the game's pi/4 is 392.7 of them), and the largest movement of
\* one mouse or touch event, in pixels
PitchLimit == 6
MaxMove == 7
\* positions 0..MaxPos that the physics engine may give a projectile body
MaxPos == 2
\* the terrain grid: resolution cells on a side of length size (the game
\* builds 128 cells on a side of 1000)
resolution == 2
size == 2
\* the largest frame delta and the game time at which the model stops
\* ticking, in frame units (FrameUnitsPerSecond to the second)
MaxFrameDelta == 6
MaxGameTime == 8

(***************************************************************************)
(* State.                                                                  *)
(***************************************************************************)
VARIABLES
  \* ---- EntityManager and the two worlds it attaches to ----
  entities,       \* EntityManager.entities: a Map, kept as the sequence of
                  \* its [id, ent] entries in insertion order
  sceneChildren,  \* THREE.Scene children (visual nodes attached)
  worldBodies,    \* cannon World.bodies (physics bodies attached)
  disposed,       \* entities whose dispose() has been invoked
  updateLog,      \* entity.update calls made by the last EntityManager.update
  \* ---- observers of the EntityManager run ----
  lastOp,         \* the last EntityManager call: [op, ent]
  addMark,        \* what the worlds looked like just before the last addEntity
  regOrder,       \* the registered entity objects, oldest registration first
  everAdded,      \* entity objects ever handed to addEntity
  \* ---- one Tank ----
  tank,           \* [health, ammo, isReloading, reloadTimer]
  \* ---- observers of the Tank run ----
  tankOp,         \* the last Tank call: [op, ret, arg]
  streak,         \* return values of the consecutive fire() calls made from a
                  \* full, not reloading tank
  reloadElapsed,  \* update deltas accumulated since the reload state was entered
  \* ---- one Projectile ----
  projectile,     \* [age, bodyPos, nodePos]
  \* ---- observers of the Projectile run ----
  projOp,         \* the last Projectile call: [op, ret, delta, pre]
  projElapsed,    \* sum of the deltas passed to Projectile.update
  \* ---- CollisionManager's beginContact listener ----
  contact,        \* the last beginContact event: [bodyA, bodyB]
  emitted,        \* the events the listener emitted for it, in order
  contactError,   \* whether the listener raised an error on it
  \* ---- one Terrain ----
  terrain,        \* [generated, heightData, vertices, data]
  \* ---- observer of the Terrain run ----
  lastQuery,      \* the last getHeightAt call: [x, z, ret, repeated, prevRet]
  \* ---- Game: the tick ----
  game,           \* [localPlayer, gameTime, body, nodePos]: whether the local
                  \* player exists, and its tank's body and visual node
  stepArgs,       \* arguments of the last physicsWorld.step call
  \* ---- observers of the tick ----
  tickLog,        \* the calls the last Game.update made, in order
  lastTick,       \* the last Game.update: [ticked, localPlayer, delta, input,
                  \* contact, steppedForce], steppedForce being the force
                  \* on the tank body when the physics step ran
  \* ---- AssetManager and the visuals built from it ----
  models,         \* AssetManager.models: the names that have a loaded model
  built,          \* the last object constructed: [kind, type, object3D,
                  \* tankBody, tankTurret]
  \* ---- a Game session: start, stop, network events, fire input, frames ----
  session,        \* the Game with its NetworkManager and EntityManager:
                  \* isRunning, isConnected, localPlayer, the registry
                  \* (entities), gameState (players, projectiles, playerKills,
                  \* playerScore), the bodies and nodes attached to the world
                  \* and the scene, the objects constructed so far, the
                  \* pending timeouts and the start() calls in flight
  sessionOp,      \* the last event of the session and, when it is a frame,
                  \* its delta and the collision event of its physics step
  \* ---- aiming: InputManager.inputState and the turret of the local tank ----
  inputManager,   \* [turretY, isPointerLocked, invertMouseY, rawY], rawY being
                  \* turretY of the last aiming event before its clamp
  turret,         \* [pitch, op]: tankTurret.rotation.x and the last event
  \* ---- an EventEmitter and the listeners of one event ----
  events,         \* EventEmitter.events.get(event): the callbacks in the order
                  \* of their registration (<<>> when the event has no key)
  emission        \* [op, atEmit, invoked, onceRuns]: the last call, the
                  \* callbacks registered when the last emit was called, the
                  \* callbacks it invoked, in order, and how often each once()
                  \* registration has run

emVars == <<entities, sceneChildren, worldBodies, disposed, updateLog,
            lastOp, addMark, regOrder, everAdded>>
tankVars == <<tank, tankOp, streak, reloadElapsed>>
projVars == <<projectile, projOp, projElapsed>>
collVars == <<contact, emitted, contactError>>
terrVars == <<terrain, lastQuery>>
tickVars == <<game, stepArgs, tickLog, lastTick>>
assetVars == <<models, built>>
sessionVars == <<session, sessionOp>>
aimVars == <<inputManager, turret>>
emitterVars == <<events, emission>>
vars == <<emVars, tankVars, projVars, collVars, terrVars, tickVars,
          assetVars, sessionVars, aimVars, emitterVars>>

\* what the calls on one component leave alone
notEmVars == <<tankVars, projVars, collVars, terrVars, tickVars, assetVars,
                sessionVars, aimVars, emitterVars>>
notTankVars == <<emVars, projVars, collVars, terrVars, tickVars, assetVars,
                sessionVars, aimVars, emitterVars>>
notProjVars == <<emVars, tankVars, collVars, terrVars, tickVars, assetVars,
                sessionVars, aimVars, emitterVars>>
notCollVars == <<emVars, tankVars, projVars, terrVars, tickVars, assetVars,
                sessionVars, aimVars, emitterVars>>
notTerrVars == <<emVars, tankVars, projVars, collVars, tickVars, assetVars,
                sessionVars, aimVars, emitterVars>>
notTickVars == <<emVars, tankVars, projVars, collVars, terrVars, assetVars,
                sessionVars, aimVars, emitterVars>>
notAssetVars == <<emVars, tankVars, projVars, collVars, terrVars, tickVars,
                sessionVars, aimVars, emitterVars>>
notSessionVars == <<emVars, tankVars, projVars, collVars, terrVars, tickVars,
                    assetVars, aimVars, emitterVars>>
notAimVars == <<emVars, tankVars, projVars, collVars, terrVars, tickVars,
                assetVars, sessionVars, emitterVars>>
notEmitterVars == <<emVars, tankVars, projVars, collVars, terrVars, tickVars,
                    assetVars, sessionVars, aimVars>>

(***************************************************************************)
(* Entities (src/src/entities/Entity.ts).                                  *)
(***************************************************************************)
Entities == 1..NumEntities
Ids == 1..NumIds

\* Entity.getId(): fixed at construction
getId(e) == ((e - 1) % NumIds) + 1

\* Entity.getPhysicsBody(): the body the entity created at construction, named
\* after its owner; entity 2 is an Entity subclass that owns no body (null)
HasBody(e) == e # 2
getPhysicsBody(e) == IF HasBody(e) THEN {e} ELSE {}

\* Entity.getObject3D(): every entity owns a visual node, named after its owner
getObject3D(e) == {e}

\* what the scene and the physics world hold besides entities: the camera the
\* Game adds to the scene, the ground body the terrain adds to the world
OtherNodes == {0}
OtherBodies == {0}

(***************************************************************************)
(* The entity Map (a JavaScript Map keeps insertion order; set() on a key  *)
(* that is present replaces the value in place).                           *)
(***************************************************************************)
RECURSIVE MapDelete(_, _)
MapDelete(m, k) ==
  IF m = <<>> THEN <<>>
  ELSE IF Head(m).id = k THEN MapDelete(Tail(m), k)
       ELSE <<Head(m)>> \o MapDelete(Tail(m), k)

MapHas(m, k) == \E i \in 1..Len(m) : m[i].id = k

MapSet(m, k, v) ==
  IF MapHas(m, k)
  THEN [i \in 1..Len(m) |-> IF m[i].id = k THEN [id |-> k, ent |-> v] ELSE m[i]]
  ELSE Append(m, [id |-> k, ent |-> v])

\* the entity objects the Map holds
Registered(m) == {m[i].ent : i \in 1..Len(m)}

RECURSIVE SeqWithout(_, _)
SeqWithout(q, S) ==
  IF q = <<>> THEN <<>>
  ELSE IF Head(q) \in S THEN SeqWithout(Tail(q), S)
       ELSE <<Head(q)>> \o SeqWithout(Tail(q), S)

(***************************************************************************)
(* EntityManager (src/src/core/EntityManager.ts), as functions of the      *)
(* state s = [entities, scene, world, disposed].                           *)
(***************************************************************************)
EMState == [entities |-> entities, scene |-> sceneChildren,
            world |-> worldBodies, disposed |-> disposed]

\* addEntity: entities.set(id, entity); scene.add(object3D) if present;
\* physicsWorld.addBody(body) if present.  Scene.add re-parents a node that is
\* already a child and World.addBody ignores a body it already holds, so both
\* collections are sets.
addEntity(s, e) ==
  [s EXCEPT !.entities = MapSet(@, getId(e), e),
            !.scene = @ \cup getObject3D(e),
            !.world = @ \cup getPhysicsBody(e)]

\* removeEntity that forgets physicsWorld.removeBody
removeEntity_KeepsBody(s, e) ==
  [s EXCEPT !.entities = MapDelete(@, getId(e)),
            !.scene = @ \ getObject3D(e),
            !.disposed = @ \cup {e}]

\* removeEntity: entities.delete(id); scene.remove(object3D);
\* physicsWorld.removeBody(body); entity.dispose()
removeEntity(s, e) ==
  [s EXCEPT !.entities = MapDelete(@, getId(e)),
            !.scene = @ \ getObject3D(e),
            !.world = @ \ getPhysicsBody(e),
            !.disposed = @ \cup {e}]

\* update: entities.forEach(entity => entity.update(delta)); the calls made,
\* in order
update(s) == [i \in 1..Len(s.entities) |-> s.entities[i].ent]

\* clear: entities.forEach(entity => removeEntity(entity)); entities.clear().
\* Each visit deletes the visited entry, so the next entry visited is the
\* first one left.
RECURSIVE clearLoop(_)
clearLoop(s) ==
  IF s.entities = <<>> THEN s
  ELSE clearLoop(removeEntity(s, Head(s.entities).ent))

clear(s) == [clearLoop(s) EXCEPT !.entities = <<>>]

(***************************************************************************)
(* The EntityManager's actions.                                            *)
(***************************************************************************)
NoMark == [ent |-> 0, bodies |-> 0, nodes |-> 0, attached |-> FALSE]

SetEM(s) ==
  /\ entities' = s.entities
  /\ sceneChildren' = s.scene
  /\ worldBodies' = s.world
  /\ disposed' = s.disposed

\* registration order: a new registration goes last and ends the registration
\* of the object that held the id; registering a registered object again
\* changes nothing
RegAfterAdd(e) ==
  IF e \in Registered(entities) THEN regOrder
  ELSE Append(SeqWithout(regOrder, {x \in Entities : getId(x) = getId(e)}), e)

AddEntity(e) ==
  /\ SetEM(addEntity(EMState, e))
  /\ updateLog' = <<>>
  /\ lastOp' = [op |-> "add", ent |-> e, afterAdd |-> FALSE]
  /\ addMark' = [ent |-> e,
                 bodies |-> Cardinality(worldBodies),
                 nodes |-> Cardinality(sceneChildren),
                 attached |-> \/ getPhysicsBody(e) \cap worldBodies # {}
                              \/ getObject3D(e) \cap sceneChildren # {}]
  /\ regOrder' = RegAfterAdd(e)
  /\ everAdded' = everAdded \cup {e}
  /\ UNCHANGED notEmVars

RemoveEntity(e) ==
  /\ SetEM(removeEntity(EMState, e))
  /\ updateLog' = <<>>
  /\ lastOp' = [op |-> "remove", ent |-> e,
                afterAdd |-> lastOp.op = "add" /\ lastOp.ent = e]
  /\ addMark' = IF lastOp.op = "add" /\ lastOp.ent = e THEN addMark ELSE NoMark
  /\ regOrder' = SeqWithout(regOrder, Registered(entities) \ Registered(entities'))
  /\ UNCHANGED everAdded
  /\ UNCHANGED notEmVars

Update ==
  /\ updateLog' = update(EMState)
  /\ lastOp' = [op |-> "update", ent |-> 0, afterAdd |-> FALSE]
  /\ addMark' = NoMark
  /\ UNCHANGED <<entities, sceneChildren, worldBodies, disposed, regOrder, everAdded>>
  /\ UNCHANGED notEmVars

Clear ==
  /\ SetEM(clear(EMState))
  /\ updateLog' = <<>>
  /\ lastOp' = [op |-> "clear", ent |-> 0, afterAdd |-> FALSE]
  /\ addMark' = NoMark
  /\ regOrder' = <<>>
  /\ UNCHANGED everAdded
  /\ UNCHANGED notEmVars

(***************************************************************************)
(* Tank (src/unnamed/part_000), as functions of the tank's fields          *)
(* t = [health, ammo, isReloading, reloadTimer].                           *)
(***************************************************************************)
maxHealth == 100
maxAmmo == 5
reloadTimeSeconds == 2
reloadTime == reloadTimeSeconds * UnitsPerSecond

Max(a, b) == IF a >= b THEN a ELSE b
Min(a, b) == IF a <= b THEN a ELSE b

\* the fields as the constructor leaves them
NewTank == [health |-> 100, ammo |-> 5, isReloading |-> FALSE, reloadTimer |-> 0]

\* startReload: isReloading = true; reloadTimer = 0
startReload(t) == [t EXCEPT !.isReloading = TRUE, !.reloadTimer = 0]

\* fire that tests for an empty magazine only after taking the round
fire_DecrementFirst(t) ==
  LET u == [t EXCEPT !.ammo = @ - 1] IN
  IF u.ammo < 0 \/ u.isReloading THEN [tank |-> u, ret |-> FALSE]
  ELSE [tank |-> IF u.ammo <= 0 THEN startReload(u) ELSE u, ret |-> TRUE]

\* fire that never starts the automatic reload
fire_NoAutoReload(t) ==
  IF t.ammo <= 0 \/ t.isReloading THEN [tank |-> t, ret |-> FALSE]
  ELSE [tank |-> [t EXCEPT !.ammo = @ - 1], ret |-> TRUE]

\* fire(): false when empty or reloading; else ammo--, startReload() when
\* that emptied the magazine, true
fire(t) ==
  IF t.ammo <= 0 \/ t.isReloading THEN [tank |-> t, ret |-> FALSE]
  ELSE LET u == [t EXCEPT !.ammo = @ - 1] IN
       [tank |-> IF u.ammo <= 0 THEN startReload(u) ELSE u, ret |-> TRUE]

\* the reload timer of Tank.update that ends the reload only after reloadTime
\* has been exceeded
updateReload_Late(t, delta) ==
  IF ~t.isReloading THEN t
  ELSE LET u == [t EXCEPT !.reloadTimer = @ + delta] IN
       IF u.reloadTimer > reloadTime
       THEN [u EXCEPT !.isReloading = FALSE, !.reloadTimer = 0, !.ammo = maxAmmo]
       ELSE u

\* Tank.update(delta), the reload timer: while reloading, reloadTimer += delta
\* and, once reloadTimer >= reloadTime, the reload ends with a full magazine
updateReload(t, delta) ==
  IF ~t.isReloading THEN t
  ELSE LET u == [t EXCEPT !.reloadTimer = @ + delta] IN
       IF u.reloadTimer >= reloadTime
       THEN [u EXCEPT !.isReloading = FALSE, !.reloadTimer = 0, !.ammo = maxAmmo]
       ELSE u

\* Tank.controlWithInput(delta, input), the reload input: a reload starts when
\* input.reload is set, the tank is not reloading and the magazine is not full
controlWithInput(t, input) ==
  IF input.reload /\ ~t.isReloading /\ t.ammo < maxAmmo THEN startReload(t) ELSE t

\* damage(amount): health = Math.max(0, health - amount)
damage(t, amount) == [t EXCEPT !.health = Max(0, @ - amount)]

\* heal(amount): health = Math.min(maxHealth, health + amount)
heal(t, amount) == [t EXCEPT !.health = Min(maxHealth, @ + amount)]

\* setHealth(health): health = Math.max(0, Math.min(maxHealth, health))
setHealth(t, health) == [t EXCEPT !.health = Max(0, Min(maxHealth, health))]

\* isDead(): health <= 0
isDead(t) == t.health <= 0

\* reset(): health = maxHealth; ammo = maxAmmo; isReloading = false;
\* reloadTimer = 0
reset(t) == [t EXCEPT !.health = maxHealth, !.ammo = maxAmmo,
                      !.isReloading = FALSE, !.reloadTimer = 0]

(***************************************************************************)
(* The Tank's actions.  Every call records itself in tankOp with the       *)
(* fields it found (pre) and what it returned.                             *)
(***************************************************************************)
\* arguments the callers may pass
Deltas == 0..MaxDelta
Amounts == {-150, -50, 0, 50, 150}
Inputs == [reload : BOOLEAN]

Full(t) == t.ammo = maxAmmo /\ ~t.isReloading

\* the accumulated reload time: restarts when the reload state is entered,
\* grows by the delta of every update made while reloading
ElapsedAfter(t, u, delta) ==
  IF ~t.isReloading /\ u.isReloading THEN 0
  ELSE IF t.isReloading THEN reloadElapsed + delta
  ELSE reloadElapsed

TankStep(op, u, ret, arg, delta) ==
  /\ u.health \in -HealthCap..HealthCap
  /\ tank' = u
  /\ tankOp' = [op |-> op, ret |-> ret, arg |-> arg, pre |-> tank]
  /\ reloadElapsed' = ElapsedAfter(tank, u, delta)
  /\ UNCHANGED notTankVars

TankFire ==
  LET r == fire(tank) IN
  /\ TankStep("fire", r.tank, r.ret, 0, 0)
  /\ streak' = IF streak = <<>> /\ ~Full(tank) THEN <<>>
               ELSE IF Len(streak) >= MaxStreak THEN streak
               ELSE Append(streak, r.ret)

TankUpdate(delta) ==
  /\ TankStep("update", updateReload(tank, delta), FALSE, delta, delta)
  /\ streak' = <<>>

TankControl(input) ==
  /\ TankStep("control", controlWithInput(tank, input), FALSE,
              IF input.reload THEN 1 ELSE 0, 0)
  /\ streak' = <<>>

TankDamage(amount) ==
  /\ TankStep("damage", damage(tank, amount), FALSE, amount, 0)
  /\ streak' = <<>>

TankHeal(amount) ==
  /\ TankStep("heal", heal(tank, amount), FALSE, amount, 0)
  /\ streak' = <<>>

TankSetHealth(health) ==
  /\ TankStep("setHealth", setHealth(tank, health), FALSE, health, 0)
  /\ streak' = <<>>

TankReset ==
  /\ TankStep("reset", reset(tank), FALSE, 0, 0)
  /\ streak' = <<>>

(***************************************************************************)
(* Projectile (src/src/entities/Player.ts).  age counts units of time;    *)
(* bodyPos is the position of the physics body, which the physics engine  *)
(* moves, and nodePos the position of the visual node.                    *)
(***************************************************************************)
lifeTimeSeconds == 5
lifeTime == lifeTimeSeconds * UnitsPerSecond

Positions == 0..MaxPos

NewProjectile == [age |-> 0, bodyPos |-> 0, nodePos |-> 0]

\* isExpired() with the comparison made strict
isExpired_Strict(p) == p.age > lifeTime

isExpired(p) == p.age >= lifeTime

Projectile_update(p, delta) ==
  [p EXCEPT !.age = p.age + delta, !.nodePos = p.bodyPos]

\* the age beyond which the model stops updating the projectile
AgeCap == lifeTime + MaxDelta

ProjectileUpdate(delta) ==
  /\ projectile.age + delta <= AgeCap
  /\ projectile' = Projectile_update(projectile, delta)
  /\ projOp' = [op |-> "update", ret |-> FALSE, delta |-> delta,
                pre |-> projectile]
  /\ projElapsed' = projElapsed + delta
  /\ UNCHANGED notProjVars

ProjectileIsExpired ==
  /\ projOp' = [op |-> "isExpired", ret |-> isExpired(projectile),
                delta |-> 0, pre |-> projectile]
  /\ UNCHANGED <<projectile, projElapsed, notProjVars>>

\* the physics engine integrates the body of the projectile
ProjectileBodyMoves(pos) ==
  /\ pos # projectile.bodyPos
  /\ projectile' = [projectile EXCEPT !.bodyPos = pos]
  /\ projOp' = [op |-> "step", ret |-> FALSE, delta |-> 0, pre |-> projectile]
  /\ UNCHANGED <<projElapsed, notProjVars>>

(***************************************************************************)
(* CollisionManager.setupCollisionEvents (src/src/core/CollisionManager.ts)*)
(* A body of a beginContact event is null or a cannon body; a cannon body  *)
(* may carry userData {type, id, ownerId, damage}.  An id, ownerId or      *)
(* damage of 0 also stands for a field that userData does not have (both   *)
(* are falsy), and type "undefined" for userData without a type.           *)
(***************************************************************************)
RoleTags == {"tank", "projectile", "obstacle", "ground"}
Damages == {0, 35}

Body(hasUserData, type, id, ownerId, dmg, position) ==
  [isNull |-> FALSE, hasUserData |-> hasUserData, type |-> type, id |-> id,
   ownerId |-> ownerId, damage |-> dmg, position |-> position]

NullBody ==
  [isNull |-> TRUE, hasUserData |-> FALSE, type |-> "undefined", id |-> 0,
   ownerId |-> 0, damage |-> 0, position |-> 0]

BodyIds == {1, 2}
BodyPositions == {0, 1}

\* the bodies a beginContact event may carry: null, a body without userData,
\* tanks, obstacles, the ground, a body with an unknown tag, a body whose
\* userData has no type, and projectiles
ContactBodies ==
  {NullBody, Body(FALSE, "undefined", 0, 0, 0, 0)}
  \cup {Body(TRUE, "tank", id, 0, 0, p) : id \in BodyIds, p \in BodyPositions}
  \cup {Body(TRUE, "obstacle", id, 0, 0, 0) : id \in BodyIds}
  \cup {Body(TRUE, "ground", 0, 0, 0, 0),
        Body(TRUE, "powerup", 1, 0, 0, 0),
        Body(TRUE, "undefined", 1, 0, 0, 0)}
  \cup {Body(TRUE, "projectile", id, o, d, p) :
          id \in BodyIds, o \in BodyIds, d \in Damages,
          p \in BodyPositions}

\* body.userData?.type
userDataType(body) == IF body.hasUserData THEN body.type ELSE "undefined"

\* (A is x and B is y) or (A is y and B is x)
IsPair(bodyA, bodyB, x, y) ==
  \/ userDataType(bodyA) = x /\ userDataType(bodyB) = y
  \/ userDataType(bodyA) = y /\ userDataType(bodyB) = x

\* bodyA.userData?.type === x ? bodyA : bodyB
Pick(bodyA, bodyB, x) == IF userDataType(bodyA) = x THEN bodyA ELSE bodyB

\* userData?.damage || 20
damageOr20(body) == IF body.damage = 0 THEN 20 ELSE body.damage

\* the projectile-tank block with the projectile always taken from bodyA
projectileTank_FromBodyA(bodyA, bodyB) ==
  IF IsPair(bodyA, bodyB, "projectile", "tank")
  THEN LET tankBody == Pick(bodyA, bodyB, "tank") IN
       << [name |-> "projectileHitTank", projectileId |-> bodyA.id,
           tankId |-> tankBody.id, projectileOwnerId |-> bodyA.ownerId,
           damage |-> damageOr20(bodyA), position |-> bodyA.position] >>
  ELSE <<>>

projectileTank(bodyA, bodyB) ==
  IF IsPair(bodyA, bodyB, "projectile", "tank")
  THEN LET projectileBody == Pick(bodyA, bodyB, "projectile")
           tankBody == Pick(bodyA, bodyB, "tank") IN
       << [name |-> "projectileHitTank", projectileId |-> projectileBody.id,
           tankId |-> tankBody.id,
           projectileOwnerId |-> projectileBody.ownerId,
           damage |-> damageOr20(projectileBody),
           position |-> projectileBody.position] >>
  ELSE <<>>

projectileObstacle(bodyA, bodyB) ==
  IF IsPair(bodyA, bodyB, "projectile", "obstacle")
  THEN LET projectileBody == Pick(bodyA, bodyB, "projectile")
           obstacleBody == Pick(bodyA, bodyB, "obstacle") IN
       << [name |-> "projectileHitObstacle",
           projectileId |-> projectileBody.id,
           obstacleId |-> obstacleBody.id,
           position |-> projectileBody.position] >>
  ELSE <<>>

\* the projectile-ground block entered for a projectile and any other body
projectileGround_AnyOther(bodyA, bodyB) ==
  IF userDataType(bodyA) = "projectile" \/ userDataType(bodyB) = "projectile"
  THEN LET projectileBody == Pick(bodyA, bodyB, "projectile") IN
       << [name |-> "projectileHitGround",
           projectileId |-> projectileBody.id,
           position |-> projectileBody.position] >>
  ELSE <<>>

projectileGround(bodyA, bodyB) ==
  IF IsPair(bodyA, bodyB, "projectile", "ground")
  THEN LET projectileBody == Pick(bodyA, bodyB, "projectile") IN
       << [name |-> "projectileHitGround",
           projectileId |-> projectileBody.id,
           position |-> projectileBody.position] >>
  ELSE <<>>

tankObstacle(bodyA, bodyB) ==
  IF IsPair(bodyA, bodyB, "tank", "obstacle")
  THEN LET tankBody == Pick(bodyA, bodyB, "tank")
           obstacleBody == Pick(bodyA, bodyB, "obstacle") IN
       << [name |-> "tankHitObstacle", tankId |-> tankBody.id,
           obstacleId |-> obstacleBody.id] >>
  ELSE <<>>

tankGround(bodyA, bodyB) ==
  IF IsPair(bodyA, bodyB, "tank", "ground")
  THEN LET tankBody == Pick(bodyA, bodyB, "tank") IN
       << [name |-> "tankHitGround", tankId |-> tankBody.id,
           position |-> tankBody.position] >>
  ELSE <<>>

\* reading a property of a null body raises a TypeError
ReadThrows(body) == body.isNull

\* the listener: the events it emits, in order, and whether it raised an
\* error
beginContact(bodyA, bodyB) ==
  IF bodyA.isNull \/ bodyB.isNull
  THEN [events |-> <<>>, error |-> FALSE]
  ELSE [events |-> projectileTank(bodyA, bodyB)
                     \o projectileObstacle(bodyA, bodyB)
                     \o projectileGround(bodyA, bodyB)
                     \o tankObstacle(bodyA, bodyB)
                     \o tankGround(bodyA, bodyB),
        error |-> ReadThrows(bodyA) \/ ReadThrows(bodyB)]

BeginContact(bodyA, bodyB) ==
  LET r == beginContact(bodyA, bodyB) IN
  /\ contact' = [bodyA |-> bodyA, bodyB |-> bodyB]
  /\ emitted' = r.events
  /\ contactError' = r.error
  /\ UNCHANGED notCollVars

(***************************************************************************)
(* Terrain (src/unnamed/part_001).                                         *)
(*                                                                         *)
(* Heights are whole numbers of 1/HeightUnits, so that the six octave      *)
(* amplitudes 1, 1/2, ..., 1/32 and the factor 0.3 are exact.  World x and *)
(* z are whole numbers of 1/(2 * resolution), so that grid lines and cell  *)
(* midpoints are exact for every size.                                     *)
(***************************************************************************)
maxHeight == 50
octaves == 6

RECURSIVE Pow2(_)
Pow2(n) == IF n = 0 THEN 1 ELSE 2 * Pow2(n - 1)

\* the smallest octave amplitude is 1 / AmpScale
AmpScale == Pow2(octaves - 1)
HeightUnits == 20 * AmpScale

Nodes == 0..resolution

\* values of the noise primitive (the two ends of its range [-1, 1], where
\* the sum of the octaves, linear in each value, has its extremes), and one
\* value per octave
NoiseValues == {-1, 1}
NoiseProfiles == [0..(octaves - 1) -> NoiseValues]

\* noise2D(x * frequency, z * frequency) at node (i, j) in octave k: every
\* combination of per-octave values occurs at node (0, 0), and the field is
\* not symmetric in i and j
noise2D(profile, i, j, k) == profile[(k + i + 2 * j) % octaves]

\* the octave loop from octave k on, in units of 1 / AmpScale
RECURSIVE OctaveSum(_, _, _, _)
OctaveSum(profile, i, j, k) ==
  IF k >= octaves THEN 0
  ELSE noise2D(profile, i, j, k) * Pow2(octaves - 1 - k)
         + OctaveSum(profile, i, j, k + 1)

\* (height + 1) / 2 * maxHeight, raised to maxHeight * 0.3 when below it
sampleHeight(profile, i, j) ==
  LET height == (OctaveSum(profile, i, j, 0) + AmpScale) * maxHeight * 10
      floor == maxHeight * 3 * 2 * AmpScale
  IN IF height < floor THEN floor ELSE height

generateHeightData(profile) ==
  [n \in Nodes \X Nodes |-> sampleHeight(profile, n[1], n[2])]

\* world coordinate of grid line n, as PlaneGeometry lays the vertices out
nodeCoord(n) == 2 * size * n - size * resolution

\* the vertices of the rotated plane, in buffer order, with the heights
\* written into them
createTerrainGeometry(heightData) ==
  [v \in 0..((resolution + 1) * (resolution + 1) - 1) |->
     LET x == v \div (resolution + 1)
         z == v % (resolution + 1)
     IN [x |-> nodeCoord(v % (resolution + 1)),
         y |-> heightData[<<x, z>>],
         z |-> nodeCoord(v \div (resolution + 1))]]

\* the data matrix handed to the cannon Heightfield
createPhysicsBody(heightData) ==
  [n \in (0..(resolution - 1)) \X (0..(resolution - 1)) |-> heightData[n]]

NewTerrain ==
  [generated |-> FALSE, heightData |-> <<>>, vertices |-> <<>>, data |-> <<>>]

generate(profile) ==
  LET heightData == generateHeightData(profile) IN
  [generated |-> TRUE, heightData |-> heightData,
   vertices |-> createTerrainGeometry(heightData),
   data |-> createPhysicsBody(heightData)]

\* heightData[i][j]; reading outside the array gives undefined
ArrayRead(heightData, i, j) ==
  IF <<i, j>> \in DOMAIN heightData
  THEN [defined |-> TRUE, value |-> heightData[<<i, j>>]]
  ELSE [defined |-> FALSE, value |-> 0]

heightIndex(x) == (x + size * resolution) \div (2 * size)

\* getHeightAt with the indices left unclamped
getHeightAt_Unclamped(t, x, z) ==
  ArrayRead(t.heightData, heightIndex(x), heightIndex(z))

getHeightAt(t, x, z) ==
  LET i == heightIndex(x)
      j == heightIndex(z)
      clampedI == Max(0, Min(resolution, i))
      clampedJ == Max(0, Min(resolution, j))
  IN ArrayRead(t.heightData, clampedI, clampedJ)

\* grid lines, cell midpoints and points up to a cell outside the terrain
QueryCoords == {size * m - size * resolution : m \in -2..(2 * resolution + 2)}

NoQuery ==
  [x |-> 0, z |-> 0, ret |-> [defined |-> FALSE, value |-> 0],
   repeated |-> FALSE, prevRet |-> [defined |-> FALSE, value |-> 0],
   asked |-> FALSE, pre |-> NewTerrain]

\* WorldManager.generateWorld builds a Terrain and generates it once
Generate(profile) ==
  /\ ~terrain.generated
  /\ terrain' = generate(profile)
  /\ lastQuery' = NoQuery
  /\ UNCHANGED notTerrVars

\* WorldManager queries the terrain only after generate() has returned
GetHeightAt(x, z) ==
  /\ terrain.generated
  /\ lastQuery' = [x |-> x, z |-> z, ret |-> getHeightAt(terrain, x, z),
                   repeated |-> FALSE, prevRet |-> NoQuery.prevRet,
                   asked |-> TRUE, pre |-> terrain]
  /\ UNCHANGED <<terrain, notTerrVars>>

\* the same query once more
GetHeightAtAgain ==
  /\ terrain.generated
  /\ lastQuery.asked
  /\ ~lastQuery.repeated
  /\ lastQuery' = [lastQuery EXCEPT
                     !.ret = getHeightAt(terrain, lastQuery.x, lastQuery.z),
                     !.repeated = TRUE, !.prevRet = lastQuery.ret,
                     !.pre = terrain]
  /\ UNCHANGED <<terrain, notTerrVars>>

(***************************************************************************)
(* Game.update (src/unnamed/part_004): one tick.                           *)
(*                                                                         *)
(* Frame time is counted in frame units, FrameUnitsPerSecond of them to    *)
(* the second, so that 1/60 s and 1/30 s are whole.  The tank of the local *)
(* player is reduced to one axis: body = [force, position].  Of the        *)
(* physics engine the model keeps that a step with a positive elapsed time *)
(* moves a body along the force that is on it when the step runs, and that *)
(* beginContact listeners run inside the step.                             *)
(***************************************************************************)
fixedStepsPerSecond == 60
capsPerSecond == 30
maxSubSteps == 10

FrameUnitsPerSecond == 2 * fixedStepsPerSecond
FrameDeltas == 0..MaxFrameDelta

MoveInputs == [forward : BOOLEAN, backward : BOOLEAN]
NoInput == [forward |-> FALSE, backward |-> FALSE]

NewGame ==
  [localPlayer |-> FALSE, gameTime |-> 0,
   body |-> [force |-> 0, position |-> 0], nodePos |-> 0]

\* Math.min(delta, 1/30) left out
cappedDelta_None(delta) == delta

\* Math.min(delta, 1/30)
cappedDelta(delta) == Min(delta, FrameUnitsPerSecond \div capsPerSecond)

\* physicsWorld.step(1/60, cappedDelta, 10): the arguments
stepArguments(delta) ==
  [dt |-> FrameUnitsPerSecond \div fixedStepsPerSecond,
   timeSinceLastCalled |-> cappedDelta(delta),
   maxSubSteps |-> maxSubSteps]

\* physicsWorld.step: what it does to a body
physicsStep(body, elapsed) ==
  IF elapsed > 0 /\ body.force > 0
  THEN [body EXCEPT !.position = body.position + 1]
  ELSE IF elapsed > 0 /\ body.force < 0
  THEN [body EXCEPT !.position = body.position - 1]
  ELSE body

\* Tank.controlWithInput, the movement forces along the forward axis, in
\* units of speed * 100
controlForce(body, input) ==
  LET cleared == 0
      afterForward == IF input.forward THEN cleared + 10 ELSE cleared
      afterBackward == IF input.backward THEN afterForward - 7
                       ELSE afterForward
  IN [body EXCEPT !.force = afterBackward]

\* Game.update(delta), and within it the calls in the order it makes them
gameUpdate(g, delta, input, hit) ==
  LET args == stepArguments(delta)
      stepped == physicsStep(g.body, args.timeSinceLastCalled)
      afterStep == IF g.localPlayer THEN [g EXCEPT !.body = stepped] ELSE g
      afterTime == [afterStep EXCEPT !.gameTime = g.gameTime + delta]
      afterInput ==
        IF g.localPlayer
        THEN [afterTime EXCEPT !.body = controlForce(afterTime.body, input)]
        ELSE afterTime
      afterEntities ==
        IF g.localPlayer
        THEN [afterInput EXCEPT !.nodePos = afterInput.body.position]
        ELSE afterInput
  IN [game |-> afterEntities,
      args |-> args,
      steppedForce |-> g.body.force,
      log |-> <<"physicsWorld.step">>
              \o (IF hit THEN <<"beginContact">> ELSE <<>>)
              \o (IF g.localPlayer
                  THEN <<"inputManager.getInput", "controlWithInput">>
                  ELSE <<>>)
              \o <<"entityManager.update", "updateProjectiles",
                   "checkCollisions">>]

CreateLocalPlayer ==
  /\ ~game.localPlayer
  /\ game' = [game EXCEPT !.localPlayer = TRUE]
  /\ UNCHANGED <<stepArgs, tickLog, lastTick, notTickVars>>

GameUpdate(delta, input, hit) ==
  LET r == gameUpdate(game, delta, input, hit) IN
  /\ r.game.gameTime <= MaxGameTime
  /\ r.game.body.position \in -MaxPos..MaxPos
  /\ game' = r.game
  /\ stepArgs' = r.args
  /\ tickLog' = r.log
  /\ lastTick' = [ticked |-> TRUE, localPlayer |-> game.localPlayer,
                  delta |-> delta, input |-> input, contact |-> hit,
                  steppedForce |-> r.steppedForce]
  /\ UNCHANGED notTickVars

(***************************************************************************)
(* Visual models: AssetManager.getModel (src/unnamed/part_002),            *)
(* Tank.createTankModel (src/unnamed/part_000) and WorldObject.createModel *)
(* (src/unnamed/part_001).  A visual is "asset" (a clone of a loaded       *)
(* model), "procedural" (built in code) or "undefined".                    *)
(***************************************************************************)
\* types a WorldObject may be given; "crate" stands for every type other
\* than tree, rock and building
ObjectTypes == {"tree", "rock", "building", "crate"}
ModelNames == {"tankBody", "tankTurret"} \cup ObjectTypes

NothingBuilt ==
  [kind |-> "none", type |-> "none", object3D |-> "undefined",
   tankBody |-> "undefined", tankTurret |-> "undefined"]

getModel(m, name) == IF name \notin m THEN "undefined" ELSE "asset"

createTankModel(m) ==
  [kind |-> "tank", type |-> "tank", object3D |-> "procedural",
   tankBody |-> IF getModel(m, "tankBody") # "undefined"
                THEN getModel(m, "tankBody") ELSE "procedural",
   tankTurret |-> IF getModel(m, "tankTurret") # "undefined"
                  THEN getModel(m, "tankTurret") ELSE "procedural"]

createModel(m, type) ==
  [kind |-> "worldObject", type |-> type,
   object3D |-> IF type \notin {"tree", "rock", "building"}
                THEN getModel(m, type)
                ELSE CASE type = "tree" -> "procedural"
                       [] type = "rock" -> "procedural"
                       [] type = "building" -> "procedural"
                       [] OTHER -> "procedural",
   tankBody |-> "undefined", tankTurret |-> "undefined"]

\* AssetManager.loadAll: a model that loads is stored under its name
LoadModel(name) ==
  /\ models' = models \cup {name}
  /\ UNCHANGED <<built, notAssetVars>>

NewTankModel ==
  /\ built' = createTankModel(models)
  /\ UNCHANGED <<models, notAssetVars>>

NewWorldObject(type) ==
  /\ built' = createModel(models, type)
  /\ UNCHANGED <<models, notAssetVars>>

(***************************************************************************)
(* A Game session (src/unnamed/part_004 with the NetworkManager of         *)
(* src/unnamed/part_005).  The entities of a session are objects 1, 2, ..  *)
(* in the order of their construction; object o owns body o and node o.    *)
(* The registry and the two tables of gameState are Maps from id to        *)
(* object.  Time is in units, UnitsPerSecond to the second.                *)
(***************************************************************************)
\* NetworkManager.getClientId(): the uuid made in the constructor
clientId == "client"
\* the players the simulated server announces
BotIds == {"bot1", "bot2"}
BotOrder == <<"bot1", "bot2">>

\* new Player({id, tank: new Tank(..), isLocal}): the Player shares the body
\* and the node of its Tank
NewPlayer(id, isLocal) ==
  [kind |-> "player", id |-> id, isLocal |-> isLocal, ownerId |-> "",
   damage |-> 0, age |-> 0, tank |-> NewTank]

\* new Projectile({id, damage, ownerId, ..}): age 0
NewSessionProjectile(id, ownerId, dmg) ==
  [kind |-> "projectile", id |-> id, isLocal |-> FALSE, ownerId |-> ownerId,
   damage |-> dmg, age |-> 0, tank |-> NewTank]

\* `projectile_${Date.now()}_${random}`: an id no earlier object carries
freshProjectileId(s) == "projectile_" \o ToString(Len(s.objects) + 1)

\* the Game after its constructor: not running, not connected, no local
\* player, empty registry and tables
NewSession ==
  [isRunning |-> FALSE, isConnected |-> FALSE, localPlayer |-> 0,
   entities |-> <<>>, players |-> <<>>, projectiles |-> <<>>,
   playerKills |-> 0, playerScore |-> 0,
   sceneChildren |-> {}, worldBodies |-> {},
   objects |-> <<>>,
   \* setTimeout callbacks not yet run: the projectileFired echoes (50 ms
   \* each, so in the order of their scheduling) and, for every
   \* simulateNetworkEvents() call, how many of its playerJoined timeouts ran
   echoes |-> <<>>, simulations |-> <<>>,
   \* start() calls suspended in `await networkManager.connect()`
   connecting |-> 0,
   \* requestAnimationFrame callbacks not yet run
   frames |-> 0,
   \* how often generateWorld() and createLocalPlayer() ran
   worldsGenerated |-> 0, localPlayersCreated |-> 0]

\* the entities whose body is in the physics world / that are registered /
\* that gameState tracks
InWorld(s) == s.worldBodies
InRegistry(s) == Registered(s.entities)
Tracked(s) == Registered(s.projectiles)
ProjectileObjects(s) ==
  {o \in 1..Len(s.objects) : s.objects[o].kind = "projectile"}

\* new X(..): the object is constructed; nothing is attached yet
construct(s, obj) == [s EXCEPT !.objects = Append(@, obj)]
lastObject(s) == Len(s.objects)

\* EntityManager.addEntity(entity)
entityManager_addEntity(s, o) ==
  [s EXCEPT !.entities = MapSet(@, s.objects[o].id, o),
            !.sceneChildren = @ \cup {o},
            !.worldBodies = @ \cup {o}]

\* EntityManager.removeEntity(entity): the registry entry goes by id, the
\* node and the body by object
entityManager_removeEntity(s, o) ==
  [s EXCEPT !.entities = MapDelete(@, s.objects[o].id),
            !.sceneChildren = @ \ {o},
            !.worldBodies = @ \ {o}]

\* EntityManager.clear()
RECURSIVE entityManager_clearLoop(_)
entityManager_clearLoop(s) ==
  IF s.entities = <<>> THEN s
  ELSE entityManager_clearLoop(entityManager_removeEntity(s, Head(s.entities).ent))

entityManager_clear(s) == [entityManager_clearLoop(s) EXCEPT !.entities = <<>>]

\* Map.get(id): the object under the id, 0 for undefined
MapGet(m, k) ==
  IF MapHas(m, k) THEN (CHOOSE e \in {m[i] : i \in 1..Len(m)} : e.id = k).ent
  ELSE 0

\* Entity.update(delta) of a registered entity: a Projectile ages; a Player
\* called without input runs Tank.update(delta)
entity_update(obj, delta) ==
  IF obj.kind = "projectile" THEN [obj EXCEPT !.age = @ + delta]
  ELSE [obj EXCEPT !.tank = updateReload(@, delta)]

\* EntityManager.update(delta)
entityManager_update(s, delta) ==
  [s EXCEPT !.objects = [o \in 1..Len(s.objects) |->
      IF o \in InRegistry(s) THEN entity_update(s.objects[o], delta)
      ELSE s.objects[o]]]

\* Game.updateProjectiles(delta): every tracked projectile is updated and,
\* when isExpired(), removed from the registry and from gameState.projectiles
RECURSIVE updateProjectilesLoop(_, _, _)
updateProjectilesLoop(s, todo, delta) ==
  IF todo = <<>> THEN s
  ELSE LET o == Head(todo).ent
           u == [s EXCEPT !.objects[o] = entity_update(@, delta)]
       IN updateProjectilesLoop(
            IF isExpired(u.objects[o])
            THEN [entityManager_removeEntity(u, o) EXCEPT
                    !.projectiles = MapDelete(@, Head(todo).id)]
            ELSE u,
            Tail(todo), delta)

updateProjectiles(s, delta) == updateProjectilesLoop(s, s.projectiles, delta)

\* the collision events the CollisionManager emits during the physics step
\* and the listeners Game.setupEventListeners puts on them: only
\* tankHitGround has one, and handleTankHitGround changes nothing
CollisionEventTypes ==
  {"projectileHitTank", "projectileHitObstacle", "projectileHitGround",
   "tankHitObstacle", "tankHitGround"}
ProjectileImpacts ==
  {"projectileHitTank", "projectileHitObstacle", "projectileHitGround"}
NoCollision == [type |-> "none", body |-> 0]

handleTankHitGround(s, ev) == s

\* a listener on the projectile events that removes the projectile that hit
handleProjectileHit_Removes(s, ev) ==
  IF ev.type \in ProjectileImpacts /\ ev.body \in Tracked(s)
  THEN [entityManager_removeEntity(s, ev.body) EXCEPT
          !.projectiles = MapDelete(@, s.objects[ev.body].id)]
  ELSE s

onCollisionEvent(s, ev) ==
  IF ev.type = "tankHitGround" THEN handleTankHitGround(s, ev) ELSE s

\* the collision events a physics step may report: none, or one contact of a
\* tank or projectile body that is in the world
CollisionEvents(s) ==
  {NoCollision} \cup
  {[type |-> t, body |-> o] : t \in ProjectileImpacts,
                               o \in InWorld(s) \cap ProjectileObjects(s)} \cup
  {[type |-> t, body |-> o] : t \in {"tankHitObstacle", "tankHitGround"},
                               o \in InWorld(s) \ ProjectileObjects(s)}

\* Game.update(delta): the physics step with its collision events, the local
\* player's update with the input, EntityManager.update, updateProjectiles
Game_update(s, delta, input, ev) ==
  LET s1 == onCollisionEvent(s, ev)
      s2 == IF s1.localPlayer # 0
            THEN [s1 EXCEPT !.objects[s1.localPlayer].tank =
                              controlWithInput(@, input)]
            ELSE s1
      s3 == entityManager_update(s2, delta)
  IN updateProjectiles(s3, delta)

\* Game.animate(): returns when not running; else requests the next frame and
\* updates
animate(s, delta, input, ev) ==
  IF ~s.isRunning THEN s
  ELSE Game_update([s EXCEPT !.frames = @ + 1], delta, input, ev)

\* Tank constructor and Tank.createPhysicsBody: the Tank of a Player has an id
\* of its own, `tank_${Date.now()}_${random}`, and that id is the one in
\* the userData of the body the Player shares with it
tankUserDataId(o) == "tank_" \o ToString(o)

\* Game.createLocalPlayer(): a Player under the client id, registered but not
\* put into gameState.players
createLocalPlayer(s) ==
  LET s1 == construct(s, NewPlayer(clientId, TRUE))
      o == lastObject(s1)
  IN [entityManager_addEntity(s1, o) EXCEPT
        !.localPlayer = o, !.localPlayersCreated = @ + 1]

\* NetworkManager.simulateNetworkEvents(): the playerJoined timeouts of bot1
\* and bot2 (the two intervals run while connected)
simulateNetworkEvents(s) == [s EXCEPT !.simulations = Append(@, 0)]

\* Game.start() after its awaits: createLocalPlayer(); isRunning = true;
\* animate(), whose first frame has a delta of 0
startAfterConnect(s, input) ==
  animate([createLocalPlayer(s) EXCEPT !.isRunning = TRUE], 0, input, NoCollision)

\* Game.start() up to `await networkManager.connect()`: nothing when running;
\* else the world is generated (its awaits wait for nothing) and connect()
\* either returns at once (connected) or waits 500 ms for the connection
Game_start(s, input) ==
  IF s.isRunning THEN s
  ELSE LET s1 == [s EXCEPT !.worldsGenerated = @ + 1] IN
       IF s1.isConnected THEN startAfterConnect(s1, input)
       ELSE [s1 EXCEPT !.connecting = @ + 1]

\* the 500 ms of connect() are over: isConnected = true;
\* simulateNetworkEvents(); the start() that awaited goes on
connectResolved(s, input) ==
  startAfterConnect(
    simulateNetworkEvents([s EXCEPT !.connecting = @ - 1, !.isConnected = TRUE]),
    input)

\* Game.stop(): nothing when not running; else disconnect(), isRunning =
\* false, entityManager.clear(), a fresh gameState, localPlayer = null.  No
\* timeout or interval is cancelled.
Game_stop(s) ==
  IF ~s.isRunning THEN s
  ELSE [entityManager_clear(s) EXCEPT
          !.isConnected = FALSE, !.isRunning = FALSE,
          !.players = <<>>, !.projectiles = <<>>,
          !.playerKills = 0, !.playerScore = 0, !.localPlayer = 0]

\* Game.handlePlayerJoined(data)
handlePlayerJoined(s, id) ==
  LET s1 == construct(s, NewPlayer(id, FALSE))
      o == lastObject(s1)
  IN [entityManager_addEntity(s1, o) EXCEPT !.players = MapSet(@, id, o)]

\* Game.handlePlayerLeft(data)
handlePlayerLeft(s, id) ==
  LET o == MapGet(s.players, id) IN
  IF o = 0 THEN s
  ELSE [entityManager_removeEntity(s, o) EXCEPT !.players = MapDelete(@, id)]

\* Game.handlePlayerUpdate(data): the position, the rotation and
\* setHealth(data.health) of a player in the table
handlePlayerUpdate(s, id, health) ==
  LET o == MapGet(s.players, id) IN
  IF o = 0 THEN s
  ELSE [s EXCEPT !.objects[o].tank = setHealth(@, health)]

\* Game.handleProjectileFired(data)
handleProjectileFired(s, data) ==
  LET s1 == construct(s, NewSessionProjectile(data.id, data.ownerId, data.damage))
      o == lastObject(s1)
  IN [entityManager_addEntity(s1, o) EXCEPT
        !.projectiles = MapSet(@, data.id, o)]

\* NetworkManager.sendProjectileFired(data): when connected, the event comes
\* back 50 ms later
sendProjectileFired(s, data) ==
  IF ~s.isConnected THEN s ELSE [s EXCEPT !.echoes = Append(@, data)]

\* Game.handleFireInput()
handleFireInput(s) ==
  IF s.localPlayer = 0 THEN s
  ELSE LET t == s.objects[s.localPlayer].tank IN
       IF isDead(t) \/ t.isReloading THEN s
       ELSE LET f == fire(t) IN
            IF ~f.ret THEN s
            ELSE LET data == [id |-> freshProjectileId(s), damage |-> 20,
                              ownerId |-> s.objects[s.localPlayer].id]
                     s1 == [s EXCEPT !.objects[s.localPlayer].tank = f.tank]
                     s2 == construct(s1, NewSessionProjectile(data.id, data.ownerId,
                                                              data.damage))
                     o == lastObject(s2)
                 IN sendProjectileFired(
                      [entityManager_addEntity(s2, o) EXCEPT
                         !.projectiles = MapSet(@, data.id, o)],
                      data)

\* Game.handlePlayerHit(data): the tank of a player in the table is damaged
\* and, when it is dead afterwards and the local player is the killer, a kill
\* and 100 points are counted
handlePlayerHit(s, data) ==
  LET o == MapGet(s.players, data.playerId) IN
  IF o = 0 THEN s
  ELSE LET s1 == [s EXCEPT !.objects[o].tank = damage(@, data.damage)] IN
       IF /\ isDead(s1.objects[o].tank)
          /\ s1.localPlayer # 0
          /\ data.killerId = s1.objects[s1.localPlayer].id
       THEN [s1 EXCEPT !.playerKills = @ + 1, !.playerScore = @ + 100]
       ELSE s1

(***************************************************************************)
(* The events of a session.                                                *)
(***************************************************************************)
NoArg == [id |-> "", damage |-> 0, ownerId |-> ""]

SessionStep(op, s, delta, ev, arg) ==
  /\ session' = s
  /\ sessionOp' = [op |-> op, ev |-> ev, delta |-> delta]
  /\ UNCHANGED notSessionVars

\* a click on the play button
Start(input) ==
  /\ session.worldsGenerated < MaxStarts
  /\ Len(session.objects) + session.connecting < MaxObjects
  /\ SessionStep("start", Game_start(session, input), 0, NoCollision, NoArg)

\* a click on the play button while no start() is suspended (the click hides
\* the menu that holds the button)
StartFromMenu(input) ==
  /\ session.connecting = 0
  /\ Start(input)

\* the connection delay of one suspended start() ends
ConnectResolved(input) ==
  /\ session.connecting > 0
  /\ Len(session.objects) < MaxObjects
  /\ SessionStep("connected", connectResolved(session, input), 0, NoCollision,
                 NoArg)

\* a click on the main-menu button
Stop ==
  SessionStep("stop", Game_stop(session), 0, NoCollision, NoArg)

\* a requestAnimationFrame callback runs: Game.animate(), with the collision
\* event of its physics step
FrameWith(delta, input, ev) ==
  /\ session.frames > 0
  /\ ev \in CollisionEvents(session)
  /\ (~session.isRunning => ev = NoCollision /\ delta = 0)
  /\ SessionStep("frame",
                 animate([session EXCEPT !.frames = @ - 1], delta, input, ev),
                 delta, ev, NoArg)

Frame(delta, input) ==
  \E ev \in CollisionEvents(session) : FrameWith(delta, input, ev)

\* a frame in which no body touches another
QuietFrame(delta, input) == FrameWith(delta, input, NoCollision)

\* the fire event of the InputManager
FireInput ==
  /\ Len(session.objects) < MaxObjects
  /\ SessionStep("fire", handleFireInput(session), 0, NoCollision, NoArg)

\* the timeout of the oldest pending echo runs
EchoTimeout ==
  /\ session.echoes # <<>>
  /\ Len(session.objects) < MaxObjects
  /\ SessionStep("projectileFired",
                 handleProjectileFired([session EXCEPT !.echoes = Tail(@)],
                                       Head(session.echoes)),
                 0, NoCollision, Head(session.echoes))

\* the next playerJoined timeout of one simulateNetworkEvents() call runs
PlayerJoinedTimeout(i) ==
  /\ i \in 1..Len(session.simulations)
  /\ session.simulations[i] < Len(BotOrder)
  /\ Len(session.objects) < MaxObjects
  /\ LET id == BotOrder[session.simulations[i] + 1] IN
     SessionStep("playerJoined",
                 handlePlayerJoined([session EXCEPT !.simulations[i] = @ + 1], id),
                 0, NoCollision, [NoArg EXCEPT !.id = id])

\* the 2 s interval of a simulation lets a bot fire (only while connected)
BotFires(botId) ==
  /\ session.simulations # <<>>
  /\ session.isConnected
  /\ Len(session.objects) < MaxObjects
  /\ LET data == [id |-> freshProjectileId(session), damage |-> 20,
                  ownerId |-> botId] IN
     SessionStep("projectileFired", handleProjectileFired(session, data),
                 0, NoCollision, data)

\* the 100 ms interval of a simulation reports both bots (only while
\* connected)
PlayerUpdateInterval ==
  /\ session.simulations # <<>>
  /\ session.isConnected
  /\ SessionStep("playerUpdate",
                 handlePlayerUpdate(handlePlayerUpdate(session, "bot1", 100),
                                    "bot2", 100),
                 0, NoCollision, NoArg)

\* the server reports that a player left
PlayerLeft(id) ==
  /\ session.isConnected
  /\ SessionStep("playerLeft", handlePlayerLeft(session, id), 0, NoCollision,
                 [NoArg EXCEPT !.id = id])

\* the server reports a hit
HitDamages == {20, 100}
PlayerHit(playerId, dmg, killerId) ==
  /\ session.isConnected
  /\ session.playerKills < MaxKills
  /\ SessionStep("playerHit",
                 handlePlayerHit(session, [playerId |-> playerId, damage |-> dmg,
                                           killerId |-> killerId]),
                 0, NoCollision,
                 [id |-> playerId, damage |-> dmg, ownerId |-> killerId])

(***************************************************************************)
(* Aiming (src/src/core/InputManager.ts, Tank.controlWithInput in          *)
(* src/unnamed/part_000).  Angles are whole numbers of the pitch of one    *)
(* pixel of mouse movement (0.002 rad); a pixel of touch movement is       *)
(* 0.01 rad, five of them.                                                 *)
(***************************************************************************)
mouseUnitsPerPixel == 1
touchUnitsPerPixel == 5

Moves == (0 - MaxMove)..MaxMove

\* the fields as the InputManager's constructor leaves them
NewInputManager ==
  [turretY |-> 0, isPointerLocked |-> FALSE, invertMouseY |-> FALSE, rawY |-> 0]

\* the aiming handlers without the clamp
clampTurretY_None(y) == y

\* Math.max(-Math.PI / 4, Math.min(Math.PI / 4, turretY))
clampTurretY(y) == Max(0 - PitchLimit, Min(PitchLimit, y))

\* InputManager.handleMouseMove(event), the pitch: only while the pointer is
\* locked
handleMouseMove(im, movementY) ==
  IF im.isPointerLocked
  THEN LET y == im.turretY + (IF im.invertMouseY THEN 0 - movementY ELSE movementY)
                               * mouseUnitsPerPixel
       IN [im EXCEPT !.rawY = y, !.turretY = clampTurretY(y)]
  ELSE im

\* InputManager.handleTouchMove(event), the aiming touch, the pitch
handleTouchMove(im, deltaY) ==
  LET y == im.turretY + (IF im.invertMouseY THEN 0 - deltaY ELSE deltaY)
                          * touchUnitsPerPixel
  IN [im EXCEPT !.rawY = y, !.turretY = clampTurretY(y)]

\* Tank.controlWithInput(delta, input), the turret:
\* tankTurret.rotation.x = input.turretY
controlTurret(t, input) == [t EXCEPT !.pitch = input.turretY]

PointerLockChange(locked) ==
  /\ inputManager' = [inputManager EXCEPT !.isPointerLocked = locked]
  /\ turret' = [turret EXCEPT !.op = "pointerLock"]
  /\ UNCHANGED notAimVars

ToggleInvertMouseY ==
  /\ inputManager' = [inputManager EXCEPT !.invertMouseY = ~@]
  /\ turret' = [turret EXCEPT !.op = "invert"]
  /\ UNCHANGED notAimVars

MouseMove(movementY) ==
  /\ inputManager' = handleMouseMove(inputManager, movementY)
  /\ turret' = [turret EXCEPT !.op = "mouse"]
  /\ UNCHANGED notAimVars

TouchMove(deltaY) ==
  /\ inputManager' = handleTouchMove(inputManager, deltaY)
  /\ turret' = [turret EXCEPT !.op = "touch"]
  /\ UNCHANGED notAimVars

\* the control step of a frame: Game.update hands inputManager.getInput() to
\* the local tank
TurretControl ==
  /\ turret' = [controlTurret(turret, inputManager) EXCEPT !.op = "control"]
  /\ UNCHANGED inputManager
  /\ UNCHANGED notAimVars

(***************************************************************************)
(* EventEmitter (src/unnamed/part_002), the listeners of one event.  A     *)
(* listener is [cb, once]: the callback cb itself as on() registers it, or *)
(* the onceCallback that once() wraps around cb.  The model keeps at most  *)
(* one registration of each.                                               *)
(***************************************************************************)
Callbacks == 1..NumCallbacks
Listeners == [cb : Callbacks, once : BOOLEAN]

NewEmission ==
  [op |-> "new", atEmit |-> <<>>, invoked |-> <<>>,
   onceRuns |-> [c \in Callbacks |-> 0]]

\* callbacks.indexOf(callback): the first index, 0 for -1
indexOf(arr, l) ==
  IF \E i \in 1..Len(arr) : arr[i] = l
  THEN CHOOSE i \in 1..Len(arr) : arr[i] = l /\ \A j \in 1..(i - 1) : arr[j] # l
  ELSE 0

\* EventEmitter.on(event, callback): push
on(arr, l) == Append(arr, l)

\* EventEmitter.off(event, callback): splice(index, 1) when found
off(arr, l) ==
  LET index == indexOf(arr, l) IN
  IF index = 0 THEN arr
  ELSE [i \in 1..(Len(arr) - 1) |-> IF i < index THEN arr[i] ELSE arr[i + 1]]

\* EventEmitter.emit(event): `for (const callback of callbacks)` walks the
\* array itself by index, and a onceCallback takes itself out of that array
\* before it calls the callback it wraps.  e = [arr, invoked].
RECURSIVE emitLoop(_, _)
emitLoop(e, i) ==
  IF i > Len(e.arr) THEN e
  ELSE LET l == e.arr[i] IN
       emitLoop([arr |-> IF l.once THEN off(e.arr, l) ELSE e.arr,
                 invoked |-> Append(e.invoked, l)],
                i + 1)

emit(arr) == emitLoop([arr |-> arr, invoked |-> <<>>], 1)

ListenersOf(arr) == {arr[i] : i \in 1..Len(arr)}

EmitterStep(op, arr, atEmit, invoked) ==
  /\ events' = arr
  /\ emission' =
       [op |-> op, atEmit |-> atEmit, invoked |-> invoked,
        onceRuns |-> [c \in Callbacks |->
          LET l == [cb |-> c, once |-> TRUE] IN
          IF op = "once" /\ l \notin ListenersOf(events) /\ l \in ListenersOf(arr)
          THEN 0
          ELSE emission.onceRuns[c]
               + Cardinality({i \in 1..Len(invoked) : invoked[i] = l})]]
  /\ UNCHANGED notEmitterVars

On(c) ==
  LET l == [cb |-> c, once |-> FALSE] IN
  /\ l \notin ListenersOf(events)
  /\ EmitterStep("on", on(events, l), <<>>, <<>>)

Once(c) ==
  LET l == [cb |-> c, once |-> TRUE] IN
  /\ l \notin ListenersOf(events)
  /\ EmitterStep("once", on(events, l), <<>>, <<>>)

\* off(event, callback): callers hold the callbacks they passed to on(); the
\* onceCallback is known to once() alone
Off(c) ==
  EmitterStep("off", off(events, [cb |-> c, once |-> FALSE]), <<>>, <<>>)

Emit ==
  LET e == emit(events) IN
  EmitterStep("emit", e.arr, events, e.invoked)

RemoveAllListeners ==
  EmitterStep("removeAllListeners", <<>>, <<>>, <<>>)

(***************************************************************************)
(* Specifications.                                                         *)
(***************************************************************************)
\* the state after construction: an empty registry beside the camera and the
\* ground, and a tank with its field initialisers
Init ==
  /\ entities = <<>>
  /\ sceneChildren = OtherNodes
  /\ worldBodies = OtherBodies
  /\ disposed = {}
  /\ updateLog = <<>>
  /\ lastOp = [op |-> "new", ent |-> 0, afterAdd |-> FALSE]
  /\ addMark = NoMark
  /\ regOrder = <<>>
  /\ everAdded = {}
  /\ tank = NewTank
  /\ tankOp = [op |-> "new", ret |-> FALSE, arg |-> 0, pre |-> NewTank]
  /\ streak = <<>>
  /\ reloadElapsed = 0
  /\ projectile = NewProjectile
  /\ projOp = [op |-> "new", ret |-> FALSE, delta |-> 0, pre |-> NewProjectile]
  /\ projElapsed = 0
  /\ contact = [bodyA |-> NullBody, bodyB |-> NullBody]
  /\ emitted = <<>>
  /\ contactError = FALSE
  /\ terrain = NewTerrain
  /\ lastQuery = NoQuery
  /\ game = NewGame
  /\ stepArgs = [dt |-> 0, timeSinceLastCalled |-> 0, maxSubSteps |-> 0]
  /\ tickLog = <<>>
  /\ lastTick = [ticked |-> FALSE, localPlayer |-> FALSE, delta |-> 0,
                 input |-> NoInput, contact |-> FALSE, steppedForce |-> 0]
  /\ models = {}
  /\ built = NothingBuilt
  /\ session = NewSession
  /\ sessionOp = [op |-> "new", ev |-> NoCollision, delta |-> 0]
  /\ inputManager = NewInputManager
  /\ turret = [pitch |-> 0, op |-> "new"]
  /\ events = <<>>
  /\ emission = NewEmission

NextEM ==
  \/ \E e \in Entities : AddEntity(e)
  \/ \E e \in Entities : RemoveEntity(e)
  \/ Update
  \/ Clear

SpecEM == Init /\ [][NextEM]_vars

NextTank ==
  \/ TankFire
  \/ \E delta \in Deltas : TankUpdate(delta)
  \/ \E input \in Inputs : TankControl(input)
  \/ \E amount \in Amounts : TankDamage(amount)
  \/ \E amount \in Amounts : TankHeal(amount)
  \/ \E health \in Amounts : TankSetHealth(health)
  \/ TankReset

SpecTank == Init /\ [][NextTank]_vars

NextProjectile ==
  \/ \E delta \in Deltas : ProjectileUpdate(delta)
  \/ ProjectileIsExpired
  \/ \E pos \in Positions : ProjectileBodyMoves(pos)

SpecProjectile == Init /\ [][NextProjectile]_vars

NextCollision ==
  \E bodyA, bodyB \in ContactBodies : BeginContact(bodyA, bodyB)

SpecCollision == Init /\ [][NextCollision]_vars

NextTerrain ==
  \/ \E profile \in NoiseProfiles : Generate(profile)
  \/ \E x, z \in QueryCoords : GetHeightAt(x, z)
  \/ GetHeightAtAgain

SpecTerrain == Init /\ [][NextTerrain]_vars

NextTick ==
  \/ CreateLocalPlayer
  \/ \E delta \in FrameDeltas, input \in MoveInputs, hit \in BOOLEAN :
       GameUpdate(delta, input, hit)

SpecTick == Init /\ [][NextTick]_vars

NextAssets ==
  \/ \E name \in ModelNames : LoadModel(name)
  \/ NewTankModel
  \/ \E type \in ObjectTypes : NewWorldObject(type)

SpecAssets == Init /\ [][NextAssets]_vars

NextSession ==
  \/ \E input \in Inputs : StartFromMenu(input)
  \/ \E input \in Inputs : ConnectResolved(input)
  \/ Stop
  \/ \E delta \in Deltas, input \in Inputs : Frame(delta, input)
  \/ FireInput
  \/ EchoTimeout
  \/ \E i \in 1..MaxStarts : PlayerJoinedTimeout(i)
  \/ \E botId \in BotIds : BotFires(botId)
  \/ \E id \in BotIds : PlayerLeft(id)

SpecSession == Init /\ [][NextSession]_vars

\* a session of the local player alone that is never stopped: no other
\* player joins or fires, and no body touches another
NextSolo ==
  \/ \E input \in Inputs : StartFromMenu(input)
  \/ \E input \in Inputs : ConnectResolved(input)
  \/ \E delta \in Deltas, input \in Inputs : QuietFrame(delta, input)
  \/ FireInput
  \/ EchoTimeout

\* while the game runs the browser keeps calling the frame callback, and the
\* clock's delta between two frames is positive
PositiveFrame ==
  /\ session.isRunning
  /\ \E delta \in Deltas \ {0}, input \in Inputs : QuietFrame(delta, input)

SpecSoloFair == Init /\ [][NextSolo]_vars /\ WF_vars(PositiveFrame)

\* start() called at any time, also while an earlier call is suspended; the
\* game is never stopped
NextStart ==
  \/ \E input \in Inputs : Start(input)
  \/ \E input \in Inputs : ConnectResolved(input)
  \/ \E delta \in Deltas, input \in Inputs : QuietFrame(delta, input)
  \/ FireInput
  \/ EchoTimeout

SpecStart == Init /\ [][NextStart]_vars

NextHits ==
  \/ \E input \in Inputs : Start(input)
  \/ \E input \in Inputs : ConnectResolved(input)
  \/ Stop
  \/ \E i \in 1..MaxStarts : PlayerJoinedTimeout(i)
  \/ PlayerUpdateInterval
  \/ \E playerId \in BotIds \cup {clientId}, dmg \in HitDamages,
        killerId \in {clientId, "bot1"} : PlayerHit(playerId, dmg, killerId)

SpecHits == Init /\ [][NextHits]_vars

NextAim ==
  \/ \E locked \in BOOLEAN : PointerLockChange(locked)
  \/ ToggleInvertMouseY
  \/ \E movementY \in Moves : MouseMove(movementY)
  \/ \E deltaY \in Moves : TouchMove(deltaY)
  \/ TurretControl

SpecAim == Init /\ [][NextAim]_vars

NextEmitter ==
  \/ \E c \in Callbacks : On(c)
  \/ \E c \in Callbacks : Once(c)
  \/ \E c \in Callbacks : Off(c)
  \/ Emit
  \/ RemoveAllListeners

SpecEmitter == Init /\ [][NextEmitter]_vars

(***************************************************************************)
(* Properties of the EntityManager, checked under SpecEM.                  *)
(***************************************************************************)
Attached(e) ==
  \/ getPhysicsBody(e) \cap worldBodies # {}
  \/ getObject3D(e) \cap sceneChildren # {}

FullyAttached(e) ==
  /\ getPhysicsBody(e) \subseteq worldBodies
  /\ getObject3D(e) \subseteq sceneChildren

\* C1: in every state, every registered entity has its body in the physics
\* world and its node in the scene, and no unregistered entity has a body or
\* a node attached.
C1_RegisteredIffAttached ==
  \A e \in Entities :
    /\ e \in Registered(entities) => FullyAttached(e)
    /\ e \notin Registered(entities) => ~Attached(e)

\* The half of C1 that the code keeps: registered entities are attached.
RegisteredAreAttached ==
  \A e \in Registered(entities) : FullyAttached(e)

\* C2 as stated: addEntity(e) directly followed by removeEntity(e) leaves the
\* body count and the node count as they were before the add, and e
\* unregistered, for any entity e.
C2_AddRemoveNetZeroAny ==
  (lastOp.op = "remove" /\ lastOp.afterAdd) =>
    /\ Cardinality(worldBodies) = addMark.bodies
    /\ Cardinality(sceneChildren) = addMark.nodes
    /\ lastOp.ent \notin Registered(entities)

\* C2 amended: the same, for any entity e whose body and node were not
\* attached before the add.
C2_AddRemoveNetZero ==
  (lastOp.op = "remove" /\ lastOp.afterAdd /\ ~addMark.attached) =>
    /\ Cardinality(worldBodies) = addMark.bodies
    /\ Cardinality(sceneChildren) = addMark.nodes
    /\ lastOp.ent \notin Registered(entities)

\* an unattached entity with a body was added and removed again while other
\* entities were attached
C2_Witness ==
  /\ lastOp.op = "remove" /\ lastOp.afterAdd /\ ~addMark.attached
  /\ HasBody(lastOp.ent)
  /\ addMark.bodies > Cardinality(OtherBodies)
  /\ entities # <<>>

\* C3: removeEntity(e) of an entity that is not registered changes neither
\* the registry, nor the world's bodies, nor the scene's nodes, nor e's
\* resources.
C3_RemoveUnregisteredIsNoOp ==
  [][(lastOp'.op = "remove" /\ lastOp'.ent \notin Registered(entities))
       => UNCHANGED <<entities, sceneChildren, worldBodies, disposed>>]_vars

\* C4: addEntity of an entity whose id is already registered attaches no
\* second body and no second node and leaves the registration as it was.
C4_DoubleAddChangesNothing ==
  [][(lastOp'.op = "add" /\ MapHas(entities, getId(lastOp'.ent)))
       => UNCHANGED <<entities, sceneChildren, worldBodies>>]_vars

\* C5: after clear() the registry is empty and every entity that was ever
\* added is detached from the world and the scene and has been disposed.
C5_ClearReleasesEverything ==
  lastOp.op = "clear" =>
    /\ entities = <<>>
    /\ \A e \in everAdded : ~Attached(e) /\ e \in disposed

\* C6: EntityManager.update calls update on exactly the registered entities,
\* once each, oldest registration first.
C6_UpdateInRegistrationOrder ==
  lastOp.op = "update" => updateLog = regOrder

\* The part of C6 that the code keeps: each registered entity once, no other.
UpdateOncePerRegistered ==
  lastOp.op = "update" =>
    /\ Len(updateLog) = Cardinality(Registered(entities))
    /\ {updateLog[i] : i \in 1..Len(updateLog)} = Registered(entities)

(***************************************************************************)
(* Properties of the Tank, checked under SpecTank.                         *)
(***************************************************************************)
\* C7: fire() returns false and changes nothing when the magazine is empty or
\* the tank is reloading; otherwise it returns true, takes exactly one round
\* and starts a reload exactly when that was the last round.  From a full
\* magazine of 5, five consecutive calls return true, the fifth leaves the
\* tank reloading, and a sixth returns false.
C7_FireContract ==
  /\ tankOp.op = "fire" =>
       LET p == tankOp.pre IN
       IF p.ammo = 0 \/ p.isReloading
       THEN ~tankOp.ret /\ tank = p
       ELSE /\ tankOp.ret
            /\ tank.ammo = p.ammo - 1
            /\ tank.health = p.health
            /\ tank.isReloading <=> (tank.ammo = 0)
            /\ tank.reloadTimer = 0
  /\ \A i \in 1..Len(streak) : streak[i] <=> (i <= 5)
  /\ Len(streak) >= 5 => tank.isReloading /\ tank.ammo = 0

\* six consecutive fire() calls were made from a full magazine
C7_Witness ==
  /\ tankOp.op = "fire" /\ ~tankOp.ret
  /\ Len(streak) = 6
  /\ tank.isReloading

\* C8: ammo is never negative and never above maxAmmo.
C8_AmmoInRange ==
  tank.ammo \in 0..maxAmmo

\* a reload that began with an empty magazine has just refilled it
C8_Witness ==
  /\ tankOp.op = "update"
  /\ tankOp.pre.isReloading /\ tankOp.pre.ammo = 0
  /\ ~tank.isReloading /\ tank.ammo = maxAmmo

\* C9: while the tank is reloading its timer equals the update deltas
\* accumulated since the reload began and is below reloadTime; an update made
\* while reloading ends the reload, with a full magazine, exactly when the
\* accumulated time has reached reloadTime; a control step made while
\* reloading, with or without the reload input, changes nothing.
C9_ReloadTakesReloadTime ==
  /\ tank.isReloading =>
       tank.reloadTimer = reloadElapsed /\ reloadElapsed < reloadTime
  /\ (tankOp.op = "update" /\ tankOp.pre.isReloading) =>
       /\ ~tank.isReloading <=> (reloadElapsed >= reloadTime)
       /\ ~tank.isReloading => tank.ammo = maxAmmo
       /\ tank.isReloading => tank.ammo = tankOp.pre.ammo
  /\ (tankOp.op = "control" /\ tankOp.pre.isReloading) => tank = tankOp.pre

\* a reload has just ended at the step at which the accumulated time reached
\* reloadTime exactly, after more than one update
C9_Witness ==
  /\ tankOp.op = "update" /\ tankOp.pre.isReloading /\ ~tank.isReloading
  /\ reloadElapsed = reloadTime
  /\ tankOp.arg < reloadTime
  /\ tank.ammo = maxAmmo

\* a reload input arrived in the middle of a reload
C9_WitnessReloadInput ==
  /\ tankOp.op = "control" /\ tankOp.arg = 1
  /\ tankOp.pre.isReloading /\ tankOp.pre.reloadTimer > 0

\* C10: health is always within [0, maxHealth].
C10_HealthInRange ==
  tank.health \in 0..maxHealth

\* The part of C10 that the code keeps: amounts that are not negative keep
\* health in range.
HealthInRangeWhileAmountsNonNegative ==
  [][(tank.health \in 0..maxHealth /\ tankOp'.arg >= 0)
       => tank'.health \in 0..maxHealth]_vars


\* C11: in every state of a tank, isDead() is true exactly when health is 0.
C11_DeadIffHealthZero ==
  isDead(tank) <=> (tank.health = 0)

\* The part of C11 that the code keeps: while health is within
\* [0, maxHealth], isDead() is true exactly when health is 0.
DeadIffHealthZeroInRange ==
  tank.health \in 0..maxHealth => (isDead(tank) <=> (tank.health = 0))

(***************************************************************************)
(* Projectile properties.                                                  *)
(***************************************************************************)
\* C12: isExpired() is false while the sum of the deltas passed to update is
\* below the lifetime of 5 seconds and true once that sum has reached it;
\* every update adds its delta to the age, every isExpired() call returns
\* that comparison, and a projectile that was expired before a call is
\* expired after it.
C12_ExpiredIffLifetimeReached ==
  /\ isExpired(projectile) <=> (projElapsed >= (5 * UnitsPerSecond))
  /\ projOp.op = "update" =>
       projectile.age = projOp.pre.age + projOp.delta
  /\ projOp.op = "isExpired" =>
       (projOp.ret <=> (projElapsed >= (5 * UnitsPerSecond)))
  /\ isExpired(projOp.pre) => isExpired(projectile)

\* an update has just taken the accumulated age from below the lifetime to
\* exactly the lifetime, and the projectile is expired
C12_Witness ==
  /\ projOp.op = "update"
  /\ projElapsed - projOp.delta < (5 * UnitsPerSecond)
  /\ projElapsed = (5 * UnitsPerSecond)
  /\ isExpired(projectile)

(***************************************************************************)
(* Collision classifier properties.                                        *)
(***************************************************************************)
\* the five known unordered pairs of role tags, each with its event
KnownPairs ==
  { <<{"projectile", "tank"}, "projectileHitTank">>,
    <<{"projectile", "obstacle"}, "projectileHitObstacle">>,
    <<{"projectile", "ground"}, "projectileHitGround">>,
    <<{"tank", "obstacle"}, "tankHitObstacle">>,
    <<{"tank", "ground"}, "tankHitGround">> }

\* the role tag a body carries, if any
RoleOf(body) ==
  IF ~body.isNull /\ body.hasUserData /\ body.type \in RoleTags
  THEN {body.type} ELSE {}

IsKnownPair(bodyA, bodyB) ==
  /\ RoleOf(bodyA) # {}
  /\ RoleOf(bodyB) # {}
  /\ \E k \in KnownPairs : k[1] = RoleOf(bodyA) \cup RoleOf(bodyB)

\* C13: for each of the five known role pairs, the events emitted for a
\* begin-contact (bodyA, bodyB) are, name and payload, the events the
\* listener emits for the swapped contact (bodyB, bodyA).
C13_ClassifySymmetric ==
  IsKnownPair(contact.bodyA, contact.bodyB) =>
    emitted = beginContact(contact.bodyB, contact.bodyA).events

\* a tank (bodyA) has met a projectile (bodyB) that differs from it in id and
\* position and carries a damage, and the event names the projectile
C13_Witness ==
  /\ contact.bodyA.type = "tank" /\ contact.bodyB.type = "projectile"
  /\ contact.bodyA.id # contact.bodyB.id
  /\ contact.bodyA.id # contact.bodyB.ownerId
  /\ contact.bodyA.position # contact.bodyB.position
  /\ contact.bodyB.damage # 0
  /\ Len(emitted) = 1
  /\ emitted[1].projectileId = contact.bodyB.id
  /\ emitted[1].position = contact.bodyB.position

\* C14: every begin-contact raises no error; it emits exactly one event, the
\* one of the pair, when the two role tags form one of the five known
\* unordered pairs, and no event for every other combination.
C14_OneEventPerKnownPair ==
  /\ ~contactError
  /\ IsKnownPair(contact.bodyA, contact.bodyB) =>
       /\ Len(emitted) = 1
       /\ <<RoleOf(contact.bodyA) \cup RoleOf(contact.bodyB),
            emitted[1].name>> \in KnownPairs
  /\ ~IsKnownPair(contact.bodyA, contact.bodyB) => emitted = <<>>

\* a projectile has met a tank and exactly one event went out
C14_Witness ==
  /\ contact.bodyA.type = "projectile" /\ contact.bodyB.type = "tank"
  /\ Len(emitted) = 1
  /\ emitted[1].name = "projectileHitTank"

\* a contact that is ignored: a null body, a body without userData, an
\* unknown tag, or two bodies of the same role
C14_WitnessNull ==
  contact.bodyA.isNull /\ ~contact.bodyB.isNull /\ emitted = <<>>
C14_WitnessNoUserData ==
  /\ ~contact.bodyA.isNull /\ ~contact.bodyA.hasUserData
  /\ contact.bodyB.type = "projectile" /\ emitted = <<>>
C14_WitnessUnknownTag ==
  /\ contact.bodyA.type = "powerup" /\ contact.bodyB.type = "tank"
  /\ emitted = <<>>
C14_WitnessSameRole ==
  /\ contact.bodyA.type = "tank" /\ contact.bodyB.type = "tank"
  /\ emitted = <<>>

(***************************************************************************)
(* Terrain properties.                                                     *)
(***************************************************************************)
\* C15: after generateHeightData, every one of the
\* (resolution + 1) x (resolution + 1) grid samples lies in
\* [0.3 x maxHeight, maxHeight], whatever the noise values in [-1, 1].
C15_HeightsInRange ==
  terrain.generated =>
    \A n \in Nodes \X Nodes :
      /\ n \in DOMAIN terrain.heightData
      /\ terrain.heightData[n] >= (3 * maxHeight * HeightUnits) \div 10
      /\ terrain.heightData[n] <= maxHeight * HeightUnits

\* The part of C15 that the code keeps: every grid sample exists and is at
\* least 0.3 x maxHeight.
HeightsAtLeastFloor ==
  terrain.generated =>
    \A n \in Nodes \X Nodes :
      /\ n \in DOMAIN terrain.heightData
      /\ terrain.heightData[n] >= (3 * maxHeight * HeightUnits) \div 10

\* the grid index of a world coordinate: that of the nearest grid line at or
\* below it, and the first or last one outside the terrain
IndexOf(x) ==
  CHOOSE n \in Nodes :
    /\ n = 0 \/ nodeCoord(n) <= x
    /\ n = resolution \/ x < nodeCoord(n + 1)

\* C16: getHeightAt(x, z) returns a defined grid sample for every x and z,
\* inside or outside the terrain: heightData[i][j] with i and j the clamped
\* grid indices of x and z; the same call made again returns the same value,
\* and a call changes nothing of the terrain.
C16_GetHeightAtPure ==
  lastQuery.asked =>
    /\ lastQuery.ret.defined
    /\ lastQuery.ret.value =
         terrain.heightData[<<IndexOf(lastQuery.x), IndexOf(lastQuery.z)>>]
    /\ lastQuery.repeated => lastQuery.ret = lastQuery.prevRet
    /\ terrain = lastQuery.pre

\* a point below the terrain in x and beyond it in z has been queried twice
C16_Witness ==
  /\ lastQuery.asked /\ lastQuery.repeated
  /\ lastQuery.x < nodeCoord(0)
  /\ lastQuery.z > nodeCoord(resolution)
  /\ lastQuery.ret.defined

\* a cell midpoint inside the terrain has been queried
C16_WitnessInside ==
  /\ lastQuery.asked
  /\ lastQuery.x > nodeCoord(0) /\ lastQuery.x < nodeCoord(1)
  /\ lastQuery.z > nodeCoord(1) /\ lastQuery.z < nodeCoord(2)
  /\ lastQuery.ret.defined

\* the height the visual mesh has at world (x, z), a grid node
VisualHeightAt(x, z) ==
  {terrain.vertices[v].y : v \in {w \in DOMAIN terrain.vertices :
     terrain.vertices[w].x = x /\ terrain.vertices[w].z = z}}

\* C17: for every grid node (i, j), the visual mesh vertex at the node's
\* world (x, z), the collision height-field sample of the node and
\* getHeightAt at the node's world (x, z) all equal heightData[i][j].
C17_SurfacesAgree ==
  terrain.generated =>
    \A i, j \in Nodes :
      /\ VisualHeightAt(nodeCoord(i), nodeCoord(j))
           = {terrain.heightData[<<i, j>>]}
      /\ <<i, j>> \in DOMAIN terrain.data
      /\ terrain.data[<<i, j>>] = terrain.heightData[<<i, j>>]
      /\ getHeightAt(terrain, nodeCoord(i), nodeCoord(j))
           = [defined |-> TRUE, value |-> terrain.heightData[<<i, j>>]]

\* C17, the visual surface alone: the vertex at node (i, j) carries
\* heightData[i][j].
VisualAgreesWithGrid ==
  terrain.generated =>
    \A i, j \in Nodes :
      VisualHeightAt(nodeCoord(i), nodeCoord(j))
        = {terrain.heightData[<<i, j>>]}

\* C17, the collision surface alone: no node is missing from it.
CollisionCoversGrid ==
  terrain.generated =>
    \A i, j \in Nodes : <<i, j>> \in DOMAIN terrain.data

\* The parts of C17 that the code keeps: the collision samples that exist
\* are the grid samples, the height query at a node is the grid sample, and
\* the visual vertex at node (i, j) carries heightData[j][i].
SurfacesAgreeUpToTransposition ==
  terrain.generated =>
    /\ \A n \in DOMAIN terrain.data : terrain.data[n] = terrain.heightData[n]
    /\ \A i, j \in Nodes :
         /\ getHeightAt(terrain, nodeCoord(i), nodeCoord(j))
              = [defined |-> TRUE, value |-> terrain.heightData[<<i, j>>]]
         /\ VisualHeightAt(nodeCoord(i), nodeCoord(j))
              = {terrain.heightData[<<j, i>>]}

(***************************************************************************)
(* Tick properties.                                                        *)
(***************************************************************************)
\* C18: in every tick, the elapsed time handed to the physics step is
\* min(delta, 1/30 s), so never above 1/30 s, the fixed sub-step is 1/60 s
\* and the number of sub-steps is bounded.
C18_StepTimeCapped ==
  lastTick.ticked =>
    /\ stepArgs.timeSinceLastCalled <= lastTick.delta
    /\ stepArgs.timeSinceLastCalled * 30 <= FrameUnitsPerSecond
    /\ \/ stepArgs.timeSinceLastCalled = lastTick.delta
       \/ stepArgs.timeSinceLastCalled * 30 = FrameUnitsPerSecond
    /\ stepArgs.dt * 60 = FrameUnitsPerSecond
    /\ stepArgs.maxSubSteps \in 1..10

\* a frame longer than 1/30 s has been ticked and the step got 1/30 s
C18_Witness ==
  /\ lastTick.ticked
  /\ lastTick.delta * 30 > FrameUnitsPerSecond
  /\ stepArgs.timeSinceLastCalled * 30 = FrameUnitsPerSecond

\* a frame shorter than 1/30 s has been ticked and the step got its delta
C18_WitnessShortFrame ==
  /\ lastTick.ticked
  /\ lastTick.delta > 0
  /\ lastTick.delta * 30 < FrameUnitsPerSecond
  /\ stepArgs.timeSinceLastCalled = lastTick.delta

\* call a was made before call b in the last tick
Before(a, b) ==
  \E i, j \in 1..Len(tickLog) : i < j /\ tickLog[i] = a /\ tickLog[j] = b

\* the force that controlWithInput puts on a body for an input
ForceOf(input) == controlForce(NewGame.body, input).force

\* C20: in every tick the vehicle controller applies the tick's input to the
\* body first, then the physics engine steps, then the collision events of
\* the step are delivered, then EntityManager.update copies the post-step
\* position of the body to the visual node.
C20_TickOrder ==
  lastTick.ticked =>
    /\ lastTick.localPlayer =>
         /\ Before("controlWithInput", "physicsWorld.step")
         /\ lastTick.steppedForce = ForceOf(lastTick.input)
    /\ lastTick.contact =>
         /\ Before("physicsWorld.step", "beginContact")
         /\ Before("beginContact", "entityManager.update")
    /\ Before("physicsWorld.step", "entityManager.update")
    /\ lastTick.localPlayer => game.nodePos = game.body.position

\* The part of C20 that the code keeps: the physics engine steps and
\* delivers the collision events of the step, then the input is applied to
\* the body (it acts in the step of the next tick), then
\* EntityManager.update runs, and after the tick the visual node is at the
\* post-step position of the body.
TickOrderAsCoded ==
  lastTick.ticked =>
    /\ lastTick.localPlayer =>
         /\ Before("physicsWorld.step", "controlWithInput")
         /\ Before("controlWithInput", "entityManager.update")
         /\ game.body.force = ForceOf(lastTick.input)
    /\ lastTick.contact =>
         /\ Before("physicsWorld.step", "beginContact")
         /\ Before("beginContact", "entityManager.update")
         /\ lastTick.localPlayer => Before("beginContact", "controlWithInput")
    /\ Before("physicsWorld.step", "entityManager.update")
    /\ lastTick.localPlayer => game.nodePos = game.body.position

(***************************************************************************)
(* Visual model properties.                                                *)
(***************************************************************************)
\* C19: whatever models the asset manager has, a Tank ends construction with
\* a body model and a turret model, and a WorldObject of any type ends
\* createModel with a visual node.
C19_AlwaysAVisual ==
  /\ built.kind = "tank" =>
       built.tankBody # "undefined" /\ built.tankTurret # "undefined"
  /\ built.kind = "worldObject" => built.object3D # "undefined"

\* The part of C19 that the code keeps: a Tank always has a body model and
\* a turret model, and a tree, rock or building always has a procedural
\* visual node.
TankAndKnownObjectsHaveAVisual ==
  /\ built.kind = "tank" =>
       built.tankBody # "undefined" /\ built.tankTurret # "undefined"
  /\ built.kind = "worldObject" /\ built.type \in {"tree", "rock", "building"}
       => built.object3D = "procedural"

(***************************************************************************)
(* Properties of a Game session, checked under SpecSession.                *)
(***************************************************************************)
\* the ids gameState.projectiles / the registry hold
Keys(m) == {m[i].id : i \in 1..Len(m)}

C21_WitnessExpired ==
  /\ sessionOp.op = "frame"
  /\ \E o \in ProjectileObjects(session) :
       isExpired(session.objects[o]) /\ o \notin Tracked(session)

\* C22: the projectile-hit-tank event carries the id, the owner id and the
\* damage the projectile was spawned with (they are the userData of its body),
\* for every damage >= 0, 0 included.
C22_PayloadAsSpawned ==
  \A i \in 1..Len(emitted) :
    emitted[i].name = "projectileHitTank" =>
      LET projectileBody == Pick(contact.bodyA, contact.bodyB, "projectile") IN
      /\ emitted[i].projectileId = projectileBody.id
      /\ emitted[i].projectileOwnerId = projectileBody.ownerId
      /\ emitted[i].damage = projectileBody.damage

\* what holds of the payload: ids as spawned, and the damage as spawned unless
\* it was spawned as 0, which is reported as 20
PayloadAsCoded ==
  \A i \in 1..Len(emitted) :
    emitted[i].name = "projectileHitTank" =>
      LET projectileBody == Pick(contact.bodyA, contact.bodyB, "projectile") IN
      /\ emitted[i].projectileId = projectileBody.id
      /\ emitted[i].projectileOwnerId = projectileBody.ownerId
      /\ emitted[i].tankId = Pick(contact.bodyA, contact.bodyB, "tank").id
      /\ emitted[i].damage =
           IF projectileBody.damage = 0 THEN 20 ELSE projectileBody.damage

\* the tankId of the event, the id in the userData of the tank body, is an id
\* under which the registry or the player table holds the tank's entity
\* (checked under SpecSession)
TankIdFindsEntity ==
  \A o \in InWorld(session) \ ProjectileObjects(session) :
    \/ MapGet(session.entities, tankUserDataId(o)) = o
    \/ MapGet(session.players, tankUserDataId(o)) = o

(***************************************************************************)
(* Properties of aiming, checked under SpecAim.                            *)
(***************************************************************************)
\* C23: after every control step of a Tank its turret pitch
\* (tankTurret.rotation.x) lies within [-pi/4, pi/4], whatever the mouse and
\* touch aiming inputs were.
C23_PitchWithinLimit ==
  /\ turret.pitch >= 0 - PitchLimit
  /\ turret.pitch <= PitchLimit

\* an aiming event went past the limit and a control step has put the
\* clamped pitch on the turret
C23_Witness ==
  /\ turret.op = "control"
  /\ inputManager.rawY > PitchLimit
  /\ turret.pitch = PitchLimit

\* the same at the lower limit
C23_WitnessDown ==
  /\ turret.op = "control"
  /\ inputManager.rawY < 0 - PitchLimit
  /\ turret.pitch = 0 - PitchLimit

\* C24: every tank or projectile body in the physics world belongs to an
\* entity that is registered in the EntityManager, after any interleaving of
\* local fire, network events (playerJoined, playerLeft, projectileFired and
\* the echo of the local projectileFired) and ticks.
C24_NoLeakedBodies == InWorld(session) \subseteq InRegistry(session)

\* the converse holds: every registered entity has its body in the world and
\* its node in the scene, and body and node go together
SessionRegisteredAreAttached ==
  /\ InRegistry(session) \subseteq InWorld(session)
  /\ session.sceneChildren = session.worldBodies

\* C25: in each tick every projectile tracked by the game has its age
\* advanced by exactly that tick's delta (its update runs once per tick).
C25_AgedOncePerTick ==
  [][(sessionOp'.op = "frame" /\ session.isRunning) =>
       \A o \in Tracked(session) :
         session'.objects[o].age = session.objects[o].age + sessionOp'.delta]_vars

\* what holds instead: a tracked projectile, being registered as well, ages by
\* twice the delta of the tick
AgedTwicePerTick ==
  [][(sessionOp'.op = "frame" /\ session.isRunning) =>
       \A o \in Tracked(session) :
         session'.objects[o].age = session.objects[o].age + 2 * sessionOp'.delta]_vars

(***************************************************************************)
(* Liveness of a session, checked under SpecSoloFair.                      *)
(***************************************************************************)
\* C26: while the game is running and ticks keep occurring with positive
\* delta, every projectile body that is ever attached to the physics world is
\* eventually detached from it (and its projectile removed from the registry
\* and from gameState.projectiles).
C26_EveryProjectileBodyDetached ==
  \A o \in 1..MaxObjects :
    (o \in InWorld(session) \cap ProjectileObjects(session))
      ~> (\/ ~session.isRunning
          \/ o \notin InWorld(session) \cup InRegistry(session) \cup Tracked(session))

\* what holds: every projectile that gameState.projectiles tracks eventually
\* leaves the table, the registry or the running game
TrackedProjectileLeaves ==
  \A o \in 1..MaxObjects :
    (o \in Tracked(session))
      ~> (~session.isRunning \/ o \notin Tracked(session) \cap InRegistry(session))

\* C27: after Game.stop() has returned and until the next start(), the
\* entity registry and gameState stay empty: no network event scheduled before
\* the stop (a delayed playerJoined, the periodic playerUpdate and
\* projectileFired, the projectileFired echo) creates or registers an entity.
Stopped(s) == ~s.isRunning /\ s.connecting = 0

C27_EmptyWhileStopped ==
  Stopped(session) =>
    /\ session.entities = <<>>
    /\ session.players = <<>>
    /\ session.projectiles = <<>>

\* what holds: the stop() of a running game leaves the registry and gameState
\* empty
EmptyRightAfterStop ==
  [][(sessionOp'.op = "stop" /\ session.isRunning) =>
       /\ session'.entities = <<>>
       /\ session'.players = <<>>
       /\ session'.projectiles = <<>>
       /\ session'.localPlayer = 0]_vars

(***************************************************************************)
(* Properties of Game.start(), checked under SpecStart.                    *)
(***************************************************************************)
\* C28: start() is idempotent under overlap: when it is called again while
\* an earlier call is awaiting the world or the connection, or while the
\* game is running, at most one local player is created and registered, the
\* world is generated once and exactly one animation loop runs.
C28_StartIdempotent ==
  /\ session.worldsGenerated <= 1
  /\ session.localPlayersCreated <= 1
  /\ session.frames <= 1
  /\ session.isRunning => session.frames = 1

\* what holds: a start() while the game is running changes nothing
StartWhileRunningIsNoOp ==
  [][(sessionOp'.op = "start" /\ session.isRunning) => session' = session]_vars

\* two calls have overlapped and both have run to their end
OverlappedStartsDone ==
  /\ session.localPlayersCreated = 2
  /\ session.frames = 2
  /\ Len(session.simulations) = 2
  /\ InWorld(session) \ InRegistry(session) # {}

(***************************************************************************)
(* Properties of the playerHit handler, checked under SpecHits.            *)
(***************************************************************************)
PlayerIds == BotIds \cup {clientId}
KillerIds == {clientId, "bot1"}

\* the player of the game that an id names: the local player under the
\* client id, a remote player under its id in gameState.players; 0 for none
PlayerNamed(s, playerId) ==
  IF playerId = clientId /\ s.localPlayer # 0 THEN s.localPlayer
  ELSE MapGet(s.players, playerId)

\* C30: a playerHit{playerId, damage} naming any player present in the game,
\* the local player as well as a remote one, reduces that player's tank health
\* by damage (clamped at 0); the local kill count and score increase, by 1 and
\* by 100, exactly when the hit takes the tank from alive to dead and the
\* killer is the local player.
C30_HitDamagesAndCountsOnce ==
  [][\A playerId \in PlayerIds, dmg \in HitDamages, killerId \in KillerIds :
       PlayerHit(playerId, dmg, killerId) =>
         LET o == PlayerNamed(session, playerId)
             kill == /\ o # 0
                     /\ ~isDead(session.objects[o].tank)
                     /\ isDead(session'.objects[o].tank)
                     /\ session.localPlayer # 0
                     /\ killerId = clientId
         IN /\ o # 0 => session'.objects[o].tank.health =
                          Max(0, session.objects[o].tank.health - dmg)
            /\ session'.playerKills = session.playerKills + (IF kill THEN 1 ELSE 0)
            /\ session'.playerScore = session.playerScore + (IF kill THEN 100 ELSE 0)]_vars

\* what holds: the score is 100 times the kills
ScoreIsHundredPerKill == session.playerScore = 100 * session.playerKills

\* what holds: a hit on a remote player in gameState.players reduces its
\* health by the damage, clamped at 0
RemoteHitReducesHealth ==
  [][\A playerId \in BotIds, dmg \in HitDamages, killerId \in KillerIds :
       (PlayerHit(playerId, dmg, killerId) /\ MapHas(session.players, playerId)) =>
         LET o == MapGet(session.players, playerId) IN
         session'.objects[o].tank.health =
           Max(0, session.objects[o].tank.health - dmg)]_vars

\* a hit on the local player leaves its health as it was
LocalHitChangesNothing ==
  [][\A dmg \in HitDamages, killerId \in KillerIds :
       PlayerHit(clientId, dmg, killerId) => session' = session]_vars

\* a remote tank is dead and two kills were counted for it
KillCountedTwice ==
  /\ session.playerKills = 2
  /\ Cardinality({o \in Registered(session.players) :
                    isDead(session.objects[o].tank)}) = 1
  /\ Len(session.objects) = 2

(***************************************************************************)
(* Properties of the EventEmitter, checked under SpecEmitter.              *)
(***************************************************************************)
\* C29: emit invokes every listener that is registered for the event when
\* emit is called exactly once, in registration order, even when a listener
\* removes itself during the emission, as a once() listener does.
C29_EmitInvokesAllInOrder ==
  emission.op = "emit" => emission.invoked = emission.atEmit

\* what holds: a once() listener runs at most once over all emits
OnceRunsAtMostOnce == \A c \in Callbacks : emission.onceRuns[c] <= 1

\* what holds: emit invokes listeners that were registered when it was
\* called, no listener twice, in registration order, and every one of them
\* as long as no once() listener is among them
IsSubsequence(a, b) ==
  \E f \in [1..Len(a) -> 1..Len(b)] :
    /\ \A i \in 1..Len(a) : a[i] = b[f[i]]
    /\ \A i, j \in 1..Len(a) : i < j => f[i] < f[j]

EmitInvokesInOrder ==
  emission.op = "emit" =>
    /\ IsSubsequence(emission.invoked, emission.atEmit)
    /\ (\A i \in 1..Len(emission.atEmit) : ~emission.atEmit[i].once)
         => emission.invoked = emission.atEmit

\* an emit with a once() listener ahead of another listener skipped the
\* listener that followed the once() listener
ListenerSkipped ==
  /\ emission.op = "emit"
  /\ Len(emission.atEmit) = 3
  /\ emission.atEmit[1].once /\ ~emission.atEmit[2].once
  /\ emission.invoked = <<emission.atEmit[1], emission.atEmit[3]>>

=============================================================================
